---- MODULE Spec2Model ----
(***************************************************************************)
(* Model of the identifier linking and page assignment chain of the       *)
(* tennr_classifier package:                                              *)
(*   fuzzy_matcher.FuzzyMatcher        similarity scores                  *)
(*   entity_linker.PatientEntityLinker clustering of page identifiers     *)
(*   page_assigner.PageAssigner        page -> cluster assignment         *)
(*                                                                         *)
(* Strings are sequences of one-character strings.  Every float of the    *)
(* program (similarity, confidence, threshold, score) is an integer count *)
(* of millionths (Unit = 1.0); round(x, 3) rounds to a multiple of 1000.   *)
(***************************************************************************)
EXTENDS Integers, Sequences, FiniteSets, TLC

\* ------------------------------------------------------------------------
\* Bounds of the model
\* ------------------------------------------------------------------------
MaxIdentifiers == 4
MaxPages == 2
MaxLines == 2

\* ------------------------------------------------------------------------
\* Numbers
\* ------------------------------------------------------------------------
Unit == 1000 * 1000

Max(a, b) == IF a >= b THEN a ELSE b
Min(a, b) == IF a <= b THEN a ELSE b

\* round(x, 3) on a non-negative value held in millionths
Round3(x) == ((x + 500) \div 1000) * 1000

\* ------------------------------------------------------------------------
\* Characters and strings
\* ------------------------------------------------------------------------
\* The characters the model's values use, in code point order.
Alphabet ==
  << "\n", " ", "(", ")", ",", "-", ".", "/",
     "0", "1", "2", "3", "4", "5", "6", "7", "8", "9", ":",
     "B", "D", "E", "J", "L", "M", "N", "O", "R", "T", "X",
     "b", "d", "e", "j", "l", "m", "n", "o", "r", "t", "x" >>

Digits == {"0", "1", "2", "3", "4", "5", "6", "7", "8", "9"}
LowerLetters == {"b", "d", "e", "j", "l", "m", "n", "o", "r", "t", "x"}
UpperLetters == {"B", "D", "E", "J", "L", "M", "N", "O", "R", "T", "X"}
Letters == UpperLetters \cup LowerLetters
Whitespace == {" ", "\n"}

CharCode(c) == CHOOSE i \in 1..Len(Alphabet) : Alphabet[i] = c

\* str.lower() on one character
Lower(c) ==
  CASE c = "B" -> "b"
    [] c = "D" -> "d"
    [] c = "E" -> "e"
    [] c = "J" -> "j"
    [] c = "L" -> "l"
    [] c = "M" -> "m"
    [] c = "N" -> "n"
    [] c = "O" -> "o"
    [] c = "R" -> "r"
    [] c = "T" -> "t"
    [] c = "X" -> "x"
    [] OTHER -> c

\* str.upper() on one character
Upper(c) == IF c \in LowerLetters THEN CHOOSE u \in UpperLetters : Lower(u) = c ELSE c

RECURSIVE MapUpper(_)
MapUpper(s) == IF s = <<>> THEN <<>> ELSE <<Upper(Head(s))>> \o MapUpper(Tail(s))

RECURSIVE MapLower(_)
MapLower(s) == IF s = <<>> THEN <<>> ELSE <<Lower(Head(s))>> \o MapLower(Tail(s))

\* re.sub of every character outside `keep` by the empty string
RECURSIVE KeepOnly(_, _)
KeepOnly(s, keep) ==
  IF s = <<>> THEN <<>>
  ELSE (IF Head(s) \in keep THEN <<Head(s)>> ELSE <<>>) \o KeepOnly(Tail(s), keep)

\* str.strip(): leading and trailing whitespace removed
RECURSIVE LStrip(_)
LStrip(s) == IF s # <<>> /\ Head(s) \in Whitespace THEN LStrip(Tail(s)) ELSE s

RECURSIVE RStrip(_)
RStrip(s) ==
  IF s # <<>> /\ s[Len(s)] \in Whitespace THEN RStrip(SubSeq(s, 1, Len(s) - 1)) ELSE s

Strip(s) == RStrip(LStrip(s))

\* re.sub(r"\s+", " ", s): every run of whitespace becomes one space
RECURSIVE CollapseSpaces(_)
CollapseSpaces(s) ==
  IF s = <<>> THEN <<>>
  ELSE IF Head(s) = " "
       THEN <<" ">> \o CollapseSpaces(LStrip(Tail(s)))
       ELSE <<Head(s)>> \o CollapseSpaces(Tail(s))

\* str.replace(old, new) for single characters
RECURSIVE ReplaceChar(_, _, _)
ReplaceChar(s, old, new) ==
  IF s = <<>> THEN <<>>
  ELSE <<IF Head(s) = old THEN new ELSE Head(s)>> \o ReplaceChar(Tail(s), old, new)

\* str.split(sep): the fields between separators, empty fields included
RECURSIVE SplitOn(_, _, _)
SplitOn(s, sep, cur) ==
  IF s = <<>> THEN <<cur>>
  ELSE IF Head(s) = sep
       THEN <<cur>> \o SplitOn(Tail(s), sep, <<>>)
       ELSE SplitOn(Tail(s), sep, Append(cur, Head(s)))

\* str.split(): whitespace separated tokens, empty tokens dropped
Tokens(s) == SelectSeq(SplitOn(s, " ", <<>>), LAMBDA t : t # <<>>)

\* str.zfill(width)
RECURSIVE ZFill(_, _)
ZFill(s, width) == IF Len(s) >= width THEN s ELSE ZFill(<<"0">> \o s, width)

\* Lexicographic order of strings by code point
RECURSIVE StrLess(_, _)
StrLess(a, b) ==
  IF b = <<>> THEN FALSE
  ELSE IF a = <<>> THEN TRUE
  ELSE IF Head(a) = Head(b) THEN StrLess(Tail(a), Tail(b))
  ELSE CharCode(Head(a)) < CharCode(Head(b))

\* sorted(tokens): insertion sort
RECURSIVE InsertSorted(_, _)
InsertSorted(t, sorted) ==
  IF sorted = <<>> THEN <<t>>
  ELSE IF StrLess(t, Head(sorted)) THEN <<t>> \o sorted
  ELSE <<Head(sorted)>> \o InsertSorted(t, Tail(sorted))

RECURSIVE SortTokens(_)
SortTokens(ts) ==
  IF ts = <<>> THEN <<>> ELSE InsertSorted(Head(ts), SortTokens(Tail(ts)))

\* " ".join(tokens)
RECURSIVE JoinSpace(_)
JoinSpace(ts) ==
  IF ts = <<>> THEN <<>>
  ELSE IF Len(ts) = 1 THEN Head(ts)
  ELSE Head(ts) \o <<" ">> \o JoinSpace(Tail(ts))

\* ------------------------------------------------------------------------
\* rapidfuzz.fuzz, as imported by fuzzy_matcher
\* ------------------------------------------------------------------------
\* One row of the longest-common-subsequence table: prev is the row of the
\* previous character of a, over the columns 0..Len(b).
RECURSIVE LcsRow(_, _, _, _, _)
LcsRow(c, b, prev, j, left) ==
  IF j > Len(b) THEN <<>>
  ELSE LET v == IF c = b[j] THEN prev[j] + 1 ELSE Max(prev[j + 1], left)
       IN  <<v>> \o LcsRow(c, b, prev, j + 1, v)

RECURSIVE LcsRows(_, _, _)
LcsRows(a, b, prev) ==
  IF a = <<>> THEN prev
  ELSE LcsRows(Tail(a), b, <<0>> \o LcsRow(Head(a), b, prev, 1, 0))

Lcs(a, b) == LcsRows(a, b, [j \in 1..(Len(b) + 1) |-> 0])[Len(b) + 1]

\* fuzz.ratio(a, b): the normalized indel similarity 2*LCS/(|a|+|b|) as a
\* percentage (0 to 100, in millionths)
Ratio(a, b) ==
  IF Len(a) + Len(b) = 0 THEN 100 * Unit
  ELSE (200 * Lcs(a, b) * Unit) \div (Len(a) + Len(b))

\* fuzz.token_sort_ratio(a, b): ratio of the sorted, re-joined tokens
TokenSortRatio(a, b) ==
  Ratio(JoinSpace(SortTokens(Tokens(a))), JoinSpace(SortTokens(Tokens(b))))

\* The alignments of a needle of length n inside hay: every window of
\* length n, and the shorter windows that overhang either end.
Windows(hay, n) ==
  { SubSeq(hay, i, Min(i + n - 1, Len(hay))) : i \in 1..Len(hay) }
    \cup { SubSeq(hay, 1, k) : k \in 1..Min(n, Len(hay)) }

SetMax(S) == CHOOSE x \in S : \A y \in S : y <= x

\* fuzz.partial_ratio(a, b): best ratio of the shorter string against
\* an alignment inside the longer one
PartialRatio(a, b) ==
  LET short == IF Len(a) <= Len(b) THEN a ELSE b
      long  == IF Len(a) <= Len(b) THEN b ELSE a
  IN  IF Len(short) = 0 THEN (IF Len(long) = 0 THEN 100 * Unit ELSE 0)
      ELSE SetMax({ Ratio(short, w) : w \in Windows(long, Len(short)) })

\* ------------------------------------------------------------------------
\* fuzzy_matcher.FuzzyMatcher
\* ------------------------------------------------------------------------
\* max(0.0, min(raw / 100.0, 1.0))
scale_score(raw) == Max(0, Min(raw \div 100, Unit))

normalize_name(value) ==
  CollapseSpaces(KeepOnly(MapLower(Strip(value)), LowerLetters \cup Digits \cup {" "}))

normalize_mrn(value) == KeepOnly(MapLower(value), LowerLetters \cup Digits)

\* int(year) of a two character year raises ValueError unless it is numeric
IsNumeric(s) == \A i \in 1..Len(s) : s[i] \in Digits

DobParts(value) == SplitOn(ReplaceChar(ReplaceChar(value, "-", "/"), ".", "/"), "/", <<>>)

normalize_dob_raises(value) ==
  LET parts == DobParts(value)
  IN  Len(parts) = 3 /\ Len(parts[3]) = 2 /\ ~IsNumeric(parts[3])

\* The two character year kept as it is read, without its century
normalize_dob_NoCentury(value) ==
  LET parts == DobParts(value)
  IN  IF Len(parts) # 3 THEN ReplaceChar(ReplaceChar(value, "-", "/"), ".", "/")
      ELSE ZFill(parts[1], 2) \o <<"/">> \o ZFill(parts[2], 2) \o <<"/">> \o ZFill(parts[3], 4)

normalize_dob(value) ==
  LET parts == DobParts(value)
  IN  IF Len(parts) # 3 THEN ReplaceChar(ReplaceChar(value, "-", "/"), ".", "/")
      ELSE LET month == parts[1]
               day   == parts[2]
               yr    == parts[3]
               year  == IF Len(yr) = 2
                        THEN (IF CharCode(yr[1]) < CharCode("5")
                              THEN <<"2", "0">> \o yr ELSE <<"1", "9">> \o yr)
                        ELSE yr
           IN  ZFill(month, 2) \o <<"/">> \o ZFill(day, 2) \o <<"/">> \o ZFill(year, 4)

normalize_phone(value) ==
  LET digits == KeepOnly(value, Digits)
  IN  IF Len(digits) >= 10 THEN SubSeq(digits, Len(digits) - 9, Len(digits)) ELSE digits

score_name(a, b) == scale_score(TokenSortRatio(normalize_name(a), normalize_name(b)))

score_mrn(a, b) ==
  LET a_norm == normalize_mrn(a)
      b_norm == normalize_mrn(b)
  IN  IF a_norm = <<>> \/ b_norm = <<>> THEN 0
      ELSE IF a_norm = b_norm THEN Unit ELSE scale_score(Ratio(a_norm, b_norm))

score_dob(a, b) == IF normalize_dob(a) = normalize_dob(b) THEN Unit ELSE 0

score_phone(a, b) ==
  LET a_norm == normalize_phone(a)
      b_norm == normalize_phone(b)
  IN  IF a_norm = <<>> \/ b_norm = <<>> THEN 0
      ELSE IF a_norm = b_norm THEN Unit ELSE scale_score(PartialRatio(a_norm, b_norm))

\* ------------------------------------------------------------------------
\* config.Settings
\* ------------------------------------------------------------------------
\* The defaults of the Settings model.  Thresholds, the minimum confidence
\* and the margin are in millionths; the four weights are in thousandths
\* (only their ratios to their sum are used).
DefaultSettings ==
  [ name_match_threshold    |-> 850000,
    mrn_match_threshold     |-> 990000,
    dob_match_threshold     |-> 990000,
    phone_match_threshold   |-> 950000,
    linker_strict_mode      |-> FALSE,
    assign_min_confidence   |-> 600000,
    assign_name_weight      |-> 300,
    assign_mrn_weight       |-> 400,
    assign_dob_weight       |-> 200,
    assign_phone_weight     |-> 100,
    assign_ambiguity_margin |-> 50000,
    assign_allow_unassigned |-> TRUE ]

\* The settings of tests/test_entity_linker.py
LinkerTestSettings ==
  [ DefaultSettings EXCEPT !.name_match_threshold  = 800000,
                           !.mrn_match_threshold   = 950000,
                           !.dob_match_threshold   = Unit,
                           !.phone_match_threshold = 950000,
                           !.linker_strict_mode    = TRUE ]

\* The settings of tests/test_page_assigner.py
AssignerTestSettings ==
  [ DefaultSettings EXCEPT !.assign_min_confidence   = 400000,
                           !.assign_ambiguity_margin = 50000,
                           !.assign_allow_unassigned = TRUE,
                           !.assign_name_weight      = 300,
                           !.assign_mrn_weight       = 500,
                           !.assign_dob_weight       = 200,
                           !.assign_phone_weight     = 0 ]

\* TENNR_ASSIGN_ALLOW_UNASSIGNED=false over the defaults
KeepTopSettings == [ DefaultSettings EXCEPT !.assign_allow_unassigned = FALSE ]

\* TENNR_ASSIGN_*_WEIGHT doubled over the defaults: the weights sum to 2.0
ScaledWeightSettings ==
  [ DefaultSettings EXCEPT !.assign_name_weight  = 600,
                           !.assign_mrn_weight   = 800,
                           !.assign_dob_weight   = 400,
                           !.assign_phone_weight = 200 ]

\* TENNR_ASSIGN_*_WEIGHT all 0: the weights sum to 0
ZeroWeightSettings ==
  [ DefaultSettings EXCEPT !.assign_name_weight  = 0,
                           !.assign_mrn_weight   = 0,
                           !.assign_dob_weight   = 0,
                           !.assign_phone_weight = 0 ]

\* ------------------------------------------------------------------------
\* pipeline.IdentifierMatch values the input pages are drawn from
\* ------------------------------------------------------------------------
Kinds == {"name", "mrn", "dob", "phone"}
anchor_kinds == {"mrn"}
supportive_kinds == {"name", "dob", "phone"}

IdentifierMatch(kind, value, confidence, word_indices) ==
  [ kind |-> kind, value |-> value, confidence |-> confidence,
    word_indices |-> word_indices ]

Mrn12   == IdentifierMatch("mrn", <<"1", "2">>, 900000, <<1>>)
Mrn1d2  == IdentifierMatch("mrn", <<"1", "-", "2">>, 700000, <<1, 2>>)
Mrn13   == IdentifierMatch("mrn", <<"1", "3">>, 900000, <<3>>)
Mrn45   == IdentifierMatch("mrn", <<"4", "5">>, 900000, <<4>>)
MrnDash == IdentifierMatch("mrn", <<"-">>, 700000, <<>>)

NameJoD  == IdentifierMatch("name", <<"J", "o", " ", "D">>, 900000, <<5, 6>>)
NameJoeD == IdentifierMatch("name", <<"J", "o", "e", " ", "D">>, 700000, <<5, 6>>)
NameDJo  == IdentifierMatch("name", <<"D", ",", " ", "J", "o">>, 900000, <<7, 8>>)
NameJoB  == IdentifierMatch("name", <<"J", "o", " ", "B">>, 900000, <<5, 6>>)

Dob1   == IdentifierMatch("dob", <<"1", "/", "2", "/", "9", "0">>, 900000, <<9>>)
Dob2   == IdentifierMatch("dob",
            <<"0", "1", "-", "0", "2", "-", "1", "9", "9", "0">>, 700000, <<9>>)
Dob3   == IdentifierMatch("dob", <<"1", "/", "3", "/", "9", "0">>, 900000, <<9>>)
DobBad == IdentifierMatch("dob", <<"1", "/", "2", "/", "x", "9">>, 700000, <<>>)

Phone1 == IdentifierMatch("phone", <<"(", "5", "5", ")", "1">>, 900000, <<10>>)
Phone2 == IdentifierMatch("phone", <<"5", "5", "2">>, 700000, <<10>>)

\* A scenario fixes the settings of the run and the identifiers its
\* document may contain.
Scenarios ==
  { [ settings |-> LinkerTestSettings,   pool |-> {Mrn12, Mrn1d2, NameJoD} ],
    [ settings |-> LinkerTestSettings,   pool |-> {Mrn12, Mrn13, NameJoD} ],
    [ settings |-> LinkerTestSettings,   pool |-> {NameJoD, NameJoeD, Dob1} ],
    [ settings |-> LinkerTestSettings,   pool |-> {NameJoD, Dob1, Dob3} ],
    [ settings |-> DefaultSettings,      pool |-> {NameDJo, Dob1, Dob2} ],
    [ settings |-> DefaultSettings,      pool |-> {Mrn12, Mrn45, NameJoD} ],
    [ settings |-> DefaultSettings,      pool |-> {Mrn12, NameJoD, NameJoB} ],
    [ settings |-> DefaultSettings,      pool |-> {Mrn12, Phone1, Phone2} ],
    [ settings |-> AssignerTestSettings, pool |-> {Mrn12, Mrn13, NameJoD, NameJoB} ],
    [ settings |-> KeepTopSettings,      pool |-> {Mrn12, MrnDash, DobBad} ],
    [ settings |-> ScaledWeightSettings, pool |-> {NameJoD, NameJoeD} ],
    [ settings |-> ZeroWeightSettings,   pool |-> {Mrn12, NameJoD} ] }

\* Every value an identifier of some scenario carries
Values == { id.value : id \in UNION { sc.pool : sc \in Scenarios } }

\* The kind-keyed dispatch of _match_identifier and _compare
Compare(kind, a, b) ==
  CASE kind = "name"  -> score_name(a, b)
    [] kind = "mrn"   -> score_mrn(a, b)
    [] kind = "dob"   -> score_dob(a, b)
    [] kind = "phone" -> score_phone(a, b)
    [] OTHER -> 0

\* The scores of all pairs of values, tabulated once (@@ makes the table)
Scores == [ kind \in Kinds |-> ([ pair \in Values \X Values |->
              Compare(kind, pair[1], pair[2]) ] @@ <<>>) ] @@ <<>>

\* The score of a pair, computed when the pair is not of the table
Similarity(kind, a, b) ==
  IF a \in Values /\ b \in Values THEN Scores[kind][<<a, b>>]
  ELSE Compare(kind, a, b)

\* The values on which _normalize_dob raises, tabulated once
DobRaises == [ v \in Values |-> normalize_dob_raises(v) ] @@ <<>>

ValueRaises(v) ==
  IF v \in Values THEN DobRaises[v] ELSE normalize_dob_raises(v)

SimilarityRaises(kind, a, b) == kind = "dob" /\ (ValueRaises(a) \/ ValueRaises(b))

\* ------------------------------------------------------------------------
\* entity_linker.PatientEntityLinker
\* ------------------------------------------------------------------------
\* Clusters live in the list `clusters` of link and are never removed, so a
\* reference to a ClusterCandidate is its position in that list; 0 is None.
None == 0

RECURSIVE DecimalDigits(_)
DecimalDigits(n) ==
  IF n < 10 THEN <<Alphabet[CharCode("0") + n]>>
  ELSE DecimalDigits(n \div 10) \o <<Alphabet[CharCode("0") + (n % 10)]>>

\* f"patient_{n:03d}"
PatientId(n) == <<"patient_">> \o ZFill(DecimalDigits(n), 3)

LinkedIdentifier(kind, value, confidence, sources) ==
  [ kind |-> kind, value |-> value, confidence |-> confidence, sources |-> sources ]

match_identifier(cluster, identifier) ==
  IF identifier.kind \notin DOMAIN cluster.identifiers THEN 0
  ELSE Similarity(identifier.kind, cluster.identifiers[identifier.kind].value,
                  identifier.value)

match_identifier_raises(cluster, identifier) ==
  /\ identifier.kind \in DOMAIN cluster.identifiers
  /\ SimilarityRaises(identifier.kind, cluster.identifiers[identifier.kind].value,
                      identifier.value)

threshold_for(settings, kind) ==
  CASE kind = "name"  -> settings.name_match_threshold
    [] kind = "mrn"   -> settings.mrn_match_threshold
    [] kind = "dob"   -> settings.dob_match_threshold
    [] kind = "phone" -> settings.phone_match_threshold
    [] OTHER -> 800000

\* if score > best_score: best_score = score; best_cluster = cluster
BetterOf(best, i, score) ==
  IF score > best.score THEN [cluster |-> i, score |-> score] ELSE best

\* The scan of _assign_identifier for the best cluster: the first cluster
\* with the strictly highest score above 0.
RECURSIVE BestScan(_, _, _, _)
BestScan(clusters, identifier, i, best) ==
  IF i > Len(clusters) THEN best
  ELSE BestScan(clusters, identifier, i + 1,
                BetterOf(best, i, match_identifier(clusters[i], identifier)))

BestCluster(clusters, identifier) ==
  BestScan(clusters, identifier, 1, [cluster |-> None, score |-> 0])

\* The branch `else` of _merge_identifier, on the existing LinkedIdentifier
MergeExisting(existing, identifier, source, score) ==
  LinkedIdentifier(existing.kind,
                   IF score > existing.confidence THEN identifier.value
                   ELSE existing.value,
                   Max(existing.confidence, identifier.confidence),
                   Append(existing.sources, source))

MergedIdentifiers(identifiers, identifier, source, score) ==
  IF identifier.kind \notin DOMAIN identifiers
  THEN (identifier.kind :>
          LinkedIdentifier(identifier.kind, identifier.value,
                           identifier.confidence, <<source>>)) @@ identifiers
  ELSE [identifiers EXCEPT ![identifier.kind] =
          MergeExisting(@, identifier, source, score)]

InList(x, xs) == \E i \in 1..Len(xs) : xs[i] = x

\* The merge that appends the page whether the cluster has it or not
merge_identifier_AppendPage(cluster, identifier, page_index, score) ==
  [ patient_id  |-> cluster.patient_id,
    identifiers |-> MergedIdentifiers(cluster.identifiers, identifier,
                                      <<page_index, identifier.word_indices>>, score),
    pages       |-> Append(cluster.pages, page_index),
    score       |-> Max(cluster.score, identifier.confidence) ]

\* The merge that leaves the aggregate score of the cluster as it was
merge_identifier_KeepScore(cluster, identifier, page_index, score) ==
  [ patient_id  |-> cluster.patient_id,
    identifiers |-> MergedIdentifiers(cluster.identifiers, identifier,
                                      <<page_index, identifier.word_indices>>, score),
    pages       |-> IF InList(page_index, cluster.pages) THEN cluster.pages
                    ELSE Append(cluster.pages, page_index),
    score       |-> cluster.score ]

merge_identifier(cluster, identifier, page_index, score) ==
  [ patient_id  |-> cluster.patient_id,
    identifiers |-> MergedIdentifiers(cluster.identifiers, identifier,
                                      <<page_index, identifier.word_indices>>, score),
    pages       |-> IF InList(page_index, cluster.pages) THEN cluster.pages
                    ELSE Append(cluster.pages, page_index),
    score       |-> Max(cluster.score, identifier.confidence) ]

\* The ClusterCandidate _create_cluster appends, n being next(_next_patient)
create_cluster(identifier, page_index, n) ==
  [ patient_id  |-> PatientId(n),
    identifiers |-> (identifier.kind :>
                       LinkedIdentifier(identifier.kind, identifier.value,
                                        identifier.confidence,
                                        << <<page_index, identifier.word_indices>> >>)),
    pages       |-> <<page_index>>,
    score       |-> identifier.confidence ]

\* max(items, key=idx) and min(items, key=idx): the first extremal item
FirstWith(items, v) == items[CHOOSE i \in 1..Len(items) :
                               /\ items[i].idx = v
                               /\ \A j \in 1..(i - 1) : items[j].idx # v]

IdxOf(items) == { items[i].idx : i \in 1..Len(items) }

SetMin(S) == CHOOSE x \in S : \A y \in S : x <= y

Preceding(identifier_index, anchor_positions) ==
  SelectSeq(anchor_positions, LAMBDA item : item.idx <= identifier_index)

NearestOf(preceding, anchor_positions) ==
  IF preceding # <<>>
  THEN FirstWith(preceding, SetMax(IdxOf(preceding))).cluster
  ELSE FirstWith(anchor_positions, SetMin(IdxOf(anchor_positions))).cluster

\* The earliest anchor of the page, whatever the position of the identifier
nearest_anchor_Earliest(identifier_index, anchor_positions) ==
  FirstWith(anchor_positions, SetMin(IdxOf(anchor_positions))).cluster

nearest_anchor(identifier_index, anchor_positions) ==
  NearestOf(Preceding(identifier_index, anchor_positions), anchor_positions)

\* The best cluster merged into whatever its score
Decide_AnyBest(settings, identifier, preferred, force_attach, best, threshold) ==
  IF best.cluster # None
    THEN [how |-> "merge", cluster |-> best.cluster]
  ELSE IF preferred # None /\ force_attach
    THEN [how |-> "attach", cluster |-> preferred]
  ELSE [how |-> "create", cluster |-> None]

\* The anchor of the page tried before the best cluster
Decide_AttachFirst(settings, identifier, preferred, force_attach, best, threshold) ==
  IF preferred # None /\ force_attach
    THEN [how |-> "attach", cluster |-> preferred]
  ELSE IF best.cluster # None /\ best.score >= threshold
    THEN [how |-> "merge", cluster |-> best.cluster]
  ELSE [how |-> "create", cluster |-> None]

\* The threshold merge taken only above the threshold, not at it
Decide_StrictThreshold(settings, identifier, preferred, force_attach, best, threshold) ==
  IF best.cluster # None /\ best.score > threshold
    THEN [how |-> "merge", cluster |-> best.cluster]
  ELSE IF preferred # None /\ force_attach
    THEN [how |-> "attach", cluster |-> preferred]
  ELSE [how |-> "create", cluster |-> None]

\* The strict-mode test made before the threshold merge
Decide_StrictFirst(settings, identifier, preferred, force_attach, best, threshold) ==
  IF /\ identifier.kind = "name"
     /\ best.cluster # None
     /\ best.score >= settings.name_match_threshold
     /\ settings.linker_strict_mode
    THEN [how |-> "strict", cluster |-> best.cluster]
  ELSE IF best.cluster # None /\ best.score >= threshold
    THEN [how |-> "merge", cluster |-> best.cluster]
  ELSE IF preferred # None /\ force_attach
    THEN [how |-> "attach", cluster |-> preferred]
  ELSE [how |-> "create", cluster |-> None]

\* The branch of _assign_identifier that returns, and the cluster it returns
\* (None: the cluster _create_cluster makes)
Decide(settings, identifier, preferred, force_attach, best, threshold) ==
  IF best.cluster # None /\ best.score >= threshold
    THEN [how |-> "merge", cluster |-> best.cluster]
  ELSE IF preferred # None /\ force_attach
    THEN [how |-> "attach", cluster |-> preferred]
  ELSE IF /\ identifier.kind = "name"
          /\ best.cluster # None
          /\ best.score >= settings.name_match_threshold
          /\ settings.linker_strict_mode
    THEN [how |-> "strict", cluster |-> best.cluster]
  ELSE IF best.cluster # None /\ best.score >= threshold
    THEN [how |-> "merge", cluster |-> best.cluster]
  ELSE [how |-> "create", cluster |-> None]

\* A new cluster that leaves the counter where it was
Perform_SameCounter(clusters, next_patient, identifier, page_index, best, d) ==
  IF d.how \in {"merge", "attach"}
    THEN [ clusters |-> [clusters EXCEPT ![d.cluster] =
                           merge_identifier(@, identifier, page_index, best.score)],
           cluster |-> d.cluster, next_patient |-> next_patient, how |-> d.how,
           score |-> best.score ]
  ELSE IF d.how = "strict"
    THEN [ clusters |-> clusters, cluster |-> d.cluster,
           next_patient |-> next_patient, how |-> d.how,
           score |-> best.score ]
  ELSE [ clusters |-> Append(clusters,
                             create_cluster(identifier, page_index, next_patient)),
         cluster |-> Len(clusters) + 1, next_patient |-> next_patient,
         how |-> d.how, score |-> best.score ]

Perform(clusters, next_patient, identifier, page_index, best, d) ==
  IF d.how \in {"merge", "attach"}
    THEN [ clusters |-> [clusters EXCEPT ![d.cluster] =
                           merge_identifier(@, identifier, page_index, best.score)],
           cluster |-> d.cluster, next_patient |-> next_patient, how |-> d.how,
           score |-> best.score ]
  ELSE IF d.how = "strict"
    THEN [ clusters |-> clusters, cluster |-> d.cluster,
           next_patient |-> next_patient, how |-> d.how,
           score |-> best.score ]
  ELSE [ clusters |-> Append(clusters,
                             create_cluster(identifier, page_index, next_patient)),
         cluster |-> Len(clusters) + 1, next_patient |-> next_patient + 1,
         how |-> d.how, score |-> best.score ]

AssignWithBest(settings, clusters, next_patient, identifier, page_index, preferred, force_attach, best) ==
  Perform(clusters, next_patient, identifier, page_index, best,
          Decide(settings, identifier, preferred, force_attach, best,
                 threshold_for(settings, identifier.kind)))

\* _assign_identifier: the clusters after the call, the cluster returned,
\* the counter after the call, the branch that returned and best_score.
assign_identifier(settings, clusters, next_patient, identifier, page_index, preferred, force_attach) ==
  AssignWithBest(settings, clusters, next_patient, identifier, page_index,
                 preferred, force_attach, BestCluster(clusters, identifier))

\* The anchor recorded one position too far
RecordAnchor_NextPosition(anchor_positions, identifier, idx, preferred, r) ==
  IF identifier.kind \in anchor_kinds
  THEN Append(anchor_positions, [idx |-> idx + 1, cluster |-> r.cluster])
  ELSE IF /\ identifier.kind \in supportive_kinds
          /\ preferred = None
          /\ ~(\E i \in 1..Len(anchor_positions) :
                 anchor_positions[i].cluster = r.cluster)
  THEN Append(anchor_positions, [idx |-> idx + 1, cluster |-> r.cluster])
  ELSE anchor_positions

\* Lines 59-64 of link: the anchors after the identifier resolved into r.cluster
RecordAnchor(anchor_positions, identifier, idx, preferred, r) ==
  IF identifier.kind \in anchor_kinds
  THEN Append(anchor_positions, [idx |-> idx, cluster |-> r.cluster])
  ELSE IF /\ identifier.kind \in supportive_kinds
          /\ preferred = None
          /\ ~(\E i \in 1..Len(anchor_positions) :
                 anchor_positions[i].cluster = r.cluster)
  THEN Append(anchor_positions, [idx |-> idx, cluster |-> r.cluster])
  ELSE anchor_positions

Resolution(anchor_positions, identifier, idx, preferred, r) ==
  [ clusters |-> r.clusters,
    anchor_positions |-> RecordAnchor(anchor_positions, identifier, idx, preferred, r),
    next_patient |-> r.next_patient, cluster |-> r.cluster, how |-> r.how,
    score |-> r.score, preferred |-> preferred ]

LinkWithPreferred(settings, clusters, anchor_positions, next_patient, identifier, page_index, idx, preferred) ==
  Resolution(anchor_positions, identifier, idx, preferred,
             assign_identifier(settings, clusters, next_patient, identifier,
                               page_index, preferred, preferred # None))

\* The nearest anchor preferred for an identifier of any kind
LinkIdentifier_AnyKind(settings, clusters, anchor_positions, next_patient, identifier, page_index, idx) ==
  LinkWithPreferred(settings, clusters, anchor_positions, next_patient,
                    identifier, page_index, idx,
                    IF anchor_positions # <<>>
                    THEN nearest_anchor(idx, anchor_positions) ELSE None)

\* One round of the inner loop of link, for the identifier at position idx
\* (counted from 0) of the page page_index.
LinkIdentifier(settings, clusters, anchor_positions, next_patient, identifier, page_index, idx) ==
  LinkWithPreferred(settings, clusters, anchor_positions, next_patient,
                    identifier, page_index, idx,
                    IF anchor_positions # <<>> /\ identifier.kind \in supportive_kinds
                    THEN nearest_anchor(idx, anchor_positions) ELSE None)

\* The inner loop of link over the identifiers of a page from position idx;
\* st holds the clusters, the anchors of the page and the counter
RECURSIVE LinkPage(_, _, _, _)
LinkPage(settings, st, page, idx) ==
  IF idx >= Len(page.identifiers) THEN st
  ELSE LinkPage(settings,
                LinkIdentifier(settings, st.clusters, st.anchor_positions,
                               st.next_patient, page.identifiers[idx + 1],
                               page.page_index, idx),
                page, idx + 1)

\* The outer loop of link from page p: every page starts without anchors
RECURSIVE LinkPages(_, _, _, _)
LinkPages(settings, st, pages, p) ==
  IF p > Len(pages) THEN st
  ELSE LinkPages(settings,
                 LinkPage(settings,
                          [ clusters |-> st.clusters, anchor_positions |-> <<>>,
                            next_patient |-> st.next_patient ],
                          pages[p], 0),
                 pages, p + 1)

\* One whole call of link on a linker whose counter stands at next_patient:
\* the clusters it built and the counter it leaves
link(settings, pages, next_patient) ==
  LinkPages(settings,
            [ clusters |-> <<>>, anchor_positions |-> <<>>,
              next_patient |-> next_patient ],
            pages, 1)

\* sorted(...) of a list of integers
RECURSIVE InsertInt(_, _)
InsertInt(x, sorted) ==
  IF sorted = <<>> THEN <<x>>
  ELSE IF x < Head(sorted) THEN <<x>> \o sorted
  ELSE <<Head(sorted)>> \o InsertInt(x, Tail(sorted))

RECURSIVE SortInts(_)
SortInts(xs) == IF xs = <<>> THEN <<>> ELSE InsertInt(Head(xs), SortInts(Tail(xs)))

\* The kinds in the order sorted(..., key=kind) lists them
KindOrder == <<"dob", "mrn", "name", "phone">>

RoundedIdentifier(ident) ==
  LinkedIdentifier(ident.kind, ident.value, Round3(ident.confidence), ident.sources)

RoundedIdentifiers(identifiers, present) ==
  [ i \in 1..Len(present) |-> RoundedIdentifier(identifiers[present[i]]) ]

\* One LinkedIdentifier per recorded source instead of one per kind
PerSource(ident) ==
  [ s \in 1..Len(ident.sources) |->
      LinkedIdentifier(ident.kind, ident.value, Round3(ident.confidence),
                       << ident.sources[s] >>) ]

RECURSIVE PerSourceAll(_, _)
PerSourceAll(identifiers, present) ==
  IF present = <<>> THEN <<>>
  ELSE PerSource(identifiers[Head(present)]) \o PerSourceAll(identifiers, Tail(present))

to_linked_patient_PerSource(cluster) ==
  [ patient_id  |-> cluster.patient_id,
    identifiers |-> PerSourceAll(cluster.identifiers,
                      SelectSeq(KindOrder, LAMBDA k : k \in DOMAIN cluster.identifiers)),
    pages       |-> SortInts(cluster.pages),
    score       |-> Round3(cluster.score) ]

to_linked_patient(cluster) ==
  [ patient_id  |-> cluster.patient_id,
    identifiers |-> RoundedIdentifiers(cluster.identifiers,
                      SelectSeq(KindOrder, LAMBDA k : k \in DOMAIN cluster.identifiers)),
    pages       |-> SortInts(cluster.pages),
    score       |-> Round3(cluster.score) ]

\* ------------------------------------------------------------------------
\* page_assigner.PageAssigner
\* ------------------------------------------------------------------------
\* patient_id = None of a PageAssignment (patient ids are never empty)
NoPatient == <<>>

ConfiguredWeight(settings, kind) ==
  CASE kind = "mrn"   -> settings.assign_mrn_weight
    [] kind = "dob"   -> settings.assign_dob_weight
    [] kind = "phone" -> settings.assign_phone_weight
    [] kind = "name"  -> settings.assign_name_weight
    [] OTHER -> 0

WeightTotal(settings) ==
  settings.assign_mrn_weight + settings.assign_dob_weight
    + settings.assign_phone_weight + settings.assign_name_weight

\* The weights used as configured whatever their total
Weighted_AsConfigured(best, weight, total) == (best * weight) \div 1000

\* best * weights[kind], the weights being those _weights returns: divided
\* by their total (total being their sum), or as configured (thousandths)
\* when the total is 0
Weighted(best, weight, total) ==
  IF total = 0 THEN (best * weight) \div 1000 ELSE (best * weight) \div total

Contribution(settings, kind, best) ==
  Weighted(best, ConfiguredWeight(settings, kind), WeightTotal(settings))

\* if current > best: best = current; best_value = candidate.value
BetterMatch(best, candidate, current) ==
  IF current > best.best
  THEN [best |-> current, best_value |-> candidate.value] ELSE best

\* The scan of _score_page over the cluster's identifiers of the kind
RECURSIVE BestMatch(_, _, _, _)
BestMatch(identifier, candidates, i, best) ==
  IF i > Len(candidates) THEN best
  ELSE BestMatch(identifier, candidates, i + 1,
                 IF candidates[i].kind = identifier.kind
                 THEN BetterMatch(best, candidates[i],
                        Similarity(identifier.kind, identifier.value,
                                   candidates[i].value))
                 ELSE best)

AddReason(acc, identifier, m, contribution) ==
  [ score   |-> acc.score + contribution,
    reasons |-> Append(acc.reasons,
                  [ kind  |-> identifier.kind,
                    value |-> IF m.best_value # <<>>
                              THEN m.best_value ELSE identifier.value,
                    score |-> Round3(contribution) ]) ]

AddMatch(settings, acc, identifier, m) ==
  IF m.best > 0
  THEN AddReason(acc, identifier, m, Contribution(settings, identifier.kind, m.best))
  ELSE acc

RECURSIVE ScoreIdentifiers(_, _, _, _, _)
ScoreIdentifiers(settings, identifiers, patient, i, acc) ==
  IF i > Len(identifiers) THEN acc
  ELSE ScoreIdentifiers(settings, identifiers, patient, i + 1,
         AddMatch(settings, acc, identifiers[i],
                  BestMatch(identifiers[i], patient.identifiers, 1,
                            [best |-> 0, best_value |-> <<>>])))

\* The total left without the clamp at 1.0
AssignmentScore_Unclamped(patient_id, acc) ==
  [ patient_id |-> patient_id,
    score      |-> Round3(acc.score),
    reasons    |-> acc.reasons ]

AssignmentScore(patient_id, acc) ==
  [ patient_id |-> patient_id,
    score      |-> Round3(Min(acc.score, Unit)),
    reasons    |-> acc.reasons ]

score_page(settings, page, patient) ==
  AssignmentScore(patient.patient_id,
    ScoreIdentifiers(settings, page.identifiers, patient, 1,
                     [score |-> 0, reasons |-> <<>>]))

\* scores.sort(key=score, reverse=True): stable, equal scores keep their order
RECURSIVE InsertByScore(_, _)
InsertByScore(x, sorted) ==
  IF sorted = <<>> THEN <<x>>
  ELSE IF Head(sorted).score < x.score THEN <<x>> \o sorted
  ELSE <<Head(sorted)>> \o InsertByScore(x, Tail(sorted))

RECURSIVE SortByScore(_, _)
SortByScore(xs, acc) ==
  IF xs = <<>> THEN acc ELSE SortByScore(Tail(xs), InsertByScore(Head(xs), acc))

PageAssignment(page_index, patient_id, confidence, reasons, manual_review) ==
  [ page_index |-> page_index, patient_id |-> patient_id,
    confidence |-> confidence, reasons |-> reasons,
    manual_review |-> manual_review ]

\* The scores of _assign_single_page after the zero scores are dropped and
\* the rest is ranked
RankedScores(settings, page, patients) ==
  SortByScore(
    SelectSeq([ i \in 1..Len(patients) |-> score_page(settings, page, patients[i]) ],
              LAMBDA sc : sc.score > 0),
    <<>>)

\* Any second ranked cluster taken for a contest
IsAmbiguous_AnySecond(settings, scores) == Len(scores) > 1

\* Lines 88-91: the ambiguity check on the ranked scores
IsAmbiguous(settings, scores) ==
  /\ Len(scores) > 1
  /\ scores[1].score - scores[2].score <= settings.assign_ambiguity_margin

\* The kept top cluster stripped of its reasons
AssignTop_NoReasons(settings, page_index, top, manual_review) ==
  IF top.score < settings.assign_min_confidence
  THEN PageAssignment(page_index,
         IF settings.assign_allow_unassigned THEN NoPatient ELSE top.patient_id,
         top.score, <<>>, TRUE)
  ELSE PageAssignment(page_index, top.patient_id, top.score, top.reasons,
                      manual_review)

\* Lines 83-108, top being scores[0]
AssignTop(settings, page_index, top, manual_review) ==
  IF top.score < settings.assign_min_confidence
  THEN PageAssignment(page_index,
         IF settings.assign_allow_unassigned THEN NoPatient ELSE top.patient_id,
         top.score,
         IF ~settings.assign_allow_unassigned THEN top.reasons ELSE <<>>,
         TRUE)
  ELSE PageAssignment(page_index, top.patient_id, top.score, top.reasons,
                      manual_review)

\* The page without evidence left unflagged
AssignRanked_Unflagged(settings, page_index, scores) ==
  IF scores = <<>>
  THEN PageAssignment(page_index, NoPatient, 0, <<>>, FALSE)
  ELSE AssignTop(settings, page_index, scores[1], IsAmbiguous(settings, scores))

AssignRanked(settings, page_index, scores) ==
  IF scores = <<>>
  THEN PageAssignment(page_index, NoPatient, 0, <<>>, TRUE)
  ELSE AssignTop(settings, page_index, scores[1], IsAmbiguous(settings, scores))

assign_single_page(settings, page, patients) ==
  AssignRanked(settings, page.page_index, RankedScores(settings, page, patients))

\* The assignment of a page kept only when a patient was assigned
Collect_AssignedOnly(acc, page_index, result) ==
  [ assignments |-> IF result.patient_id = NoPatient THEN acc.assignments
                    ELSE Append(acc.assignments, result),
    unassigned_pages |->
      IF result.patient_id = NoPatient
      THEN Append(acc.unassigned_pages, page_index) ELSE acc.unassigned_pages,
    ambiguous_pages |->
      IF result.patient_id # NoPatient /\ result.manual_review
      THEN Append(acc.ambiguous_pages, page_index) ELSE acc.ambiguous_pages ]

\* if ... / if ... in place of if ... / elif ...
Collect_BothLists(acc, page_index, result) ==
  [ assignments |-> Append(acc.assignments, result),
    unassigned_pages |->
      IF result.patient_id = NoPatient
      THEN Append(acc.unassigned_pages, page_index) ELSE acc.unassigned_pages,
    ambiguous_pages |->
      IF result.manual_review
      THEN Append(acc.ambiguous_pages, page_index) ELSE acc.ambiguous_pages ]

\* The flag tested before the patient id: if manual_review / elif None
Collect_FlagFirst(acc, page_index, result) ==
  [ assignments |-> Append(acc.assignments, result),
    unassigned_pages |->
      IF ~result.manual_review /\ result.patient_id = NoPatient
      THEN Append(acc.unassigned_pages, page_index) ELSE acc.unassigned_pages,
    ambiguous_pages |->
      IF result.manual_review
      THEN Append(acc.ambiguous_pages, page_index) ELSE acc.ambiguous_pages ]

\* Lines 47-52 of assign_pages
Collect(acc, page_index, result) ==
  [ assignments |-> Append(acc.assignments, result),
    unassigned_pages |->
      IF result.patient_id = NoPatient
      THEN Append(acc.unassigned_pages, page_index) ELSE acc.unassigned_pages,
    ambiguous_pages |->
      IF result.patient_id # NoPatient /\ result.manual_review
      THEN Append(acc.ambiguous_pages, page_index) ELSE acc.ambiguous_pages ]

RECURSIVE AssignFrom(_, _, _, _, _)
AssignFrom(settings, pages, patients, i, acc) ==
  IF i > Len(pages) THEN acc
  ELSE AssignFrom(settings, pages, patients, i + 1,
         Collect(acc, pages[i].page_index,
                 assign_single_page(settings, pages[i], patients)))

EmptySummary ==
  [ assignments |-> <<>>, unassigned_pages |-> <<>>, ambiguous_pages |-> <<>> ]

assign_pages(settings, pages, patients) ==
  AssignFrom(settings, pages, patients, 1, EmptySummary)

\* _compare raises for some identifier of some page against some cluster
assign_pages_raises(pages, patients) ==
  \E p \in 1..Len(pages) : \E i \in 1..Len(pages[p].identifiers) :
    \E q \in 1..Len(patients) : \E c \in 1..Len(patients[q].identifiers) :
      /\ patients[q].identifiers[c].kind = pages[p].identifiers[i].kind
      /\ SimilarityRaises(pages[p].identifiers[i].kind,
                          pages[p].identifiers[i].value,
                          patients[q].identifiers[c].value)

\* ------------------------------------------------------------------------
\* config.Settings: the default patterns, compiled with re.IGNORECASE
\* ------------------------------------------------------------------------
\* The number of characters of the class from position i on
RECURSIVE RunLen(_, _, _)
RunLen(text, i, class) ==
  IF i > Len(text) \/ text[i] \notin class THEN 0 ELSE 1 + RunLen(text, i + 1, class)

\* The literal matches at position i, whatever the case of the text
StartsWith(text, i, literal) ==
  /\ i + Len(literal) - 1 <= Len(text)
  /\ MapLower(SubSeq(text, i, i + Len(literal) - 1)) = literal

\* The position after word1\s*word2\s*... matched at i, 0 when it does not match
RECURSIVE AfterWords(_, _, _)
AfterWords(text, i, words) ==
  IF ~StartsWith(text, i, Head(words)) THEN 0
  ELSE IF Len(words) = 1 THEN i + Len(Head(words))
  ELSE AfterWords(text,
                  i + Len(Head(words))
                    + RunLen(text, i + Len(Head(words)), Whitespace),
                  Tail(words))

\* The position after the first alternative that matches at i, 0 without one
RECURSIVE AfterKeyword(_, _, _)
AfterKeyword(text, i, alternatives) ==
  IF alternatives = <<>> THEN 0
  ELSE IF AfterWords(text, i, Head(alternatives)) # 0
       THEN AfterWords(text, i, Head(alternatives))
       ELSE AfterKeyword(text, i, Tail(alternatives))

\* (?:MRN|Medical\s*Record\s*Number)
MrnKeywords ==
  << << <<"m", "r", "n">> >>,
     << <<"m", "e", "d", "i", "c", "a", "l">>, <<"r", "e", "c", "o", "r", "d">>,
        <<"n", "u", "m", "b", "e", "r">> >> >>

\* (?:DOB|Date\s*of\s*Birth)
DobKeywords ==
  << << <<"d", "o", "b">> >>,
     << <<"d", "a", "t", "e">>, <<"o", "f">>, <<"b", "i", "r", "t", "h">> >> >>

\* (?:Phone|Tel)
PhoneKeywords ==
  << << <<"p", "h", "o", "n", "e">> >>, << <<"t", "e", "l">> >> >>

\* A match of a pattern: where it starts, where its named group starts and
\* the position after its last character; stop = 0 stands for no match
NoMatch == [start |-> 0, group |-> 0, stop |-> 0]

\* [:\s]* after the keyword: the position of the named group
GroupStart(text, after) == after + RunLen(text, after, {":"} \cup Whitespace)

\* regex_mrn at i: keyword, [:\s]*, then (?P<mrn>[A-Z0-9-]{5,})
MatchMrnAt(text, i) ==
  LET after == AfterKeyword(text, i, MrnKeywords)
      g     == GroupStart(text, after)
      n     == RunLen(text, g, Letters \cup Digits \cup {"-"})
  IN  IF after # 0 /\ n >= 5 THEN [start |-> i, group |-> g, stop |-> g + n]
      ELSE NoMatch

\* \d{2}[/-]\d{2}[/-]\d{2,4} at g: the position after it, 0 without a match
DateStop(text, g) ==
  IF /\ RunLen(text, g, Digits) >= 2
     /\ RunLen(text, g + 2, {"/", "-"}) >= 1
     /\ RunLen(text, g + 3, Digits) >= 2
     /\ RunLen(text, g + 5, {"/", "-"}) >= 1
     /\ RunLen(text, g + 6, Digits) >= 2
  THEN g + 6 + Min(RunLen(text, g + 6, Digits), 4)
  ELSE 0

\* regex_dob at i
MatchDobAt(text, i) ==
  LET after == AfterKeyword(text, i, DobKeywords)
      g     == GroupStart(text, after)
  IN  IF after # 0 /\ DateStop(text, g) # 0
      THEN [start |-> i, group |-> g, stop |-> DateStop(text, g)]
      ELSE NoMatch

\* The position after an optional character of the class at i
Optional(text, i, class) == i + Min(RunLen(text, i, class), 1)

\* \(?\d{3}\)?[\s-]?\d{3}[\s-]?\d{4} at g: the position after it, or 0
PhoneStop(text, g) ==
  LET area     == Optional(text, g, {"("})
      exchange == Optional(text, Optional(text, area + 3, {")"}), Whitespace \cup {"-"})
      line     == Optional(text, exchange + 3, Whitespace \cup {"-"})
  IN  IF /\ RunLen(text, area, Digits) >= 3
         /\ RunLen(text, exchange, Digits) >= 3
         /\ RunLen(text, line, Digits) >= 4
      THEN line + 4 ELSE 0

\* regex_phone at i
MatchPhoneAt(text, i) ==
  LET after == AfterKeyword(text, i, PhoneKeywords)
      g     == GroupStart(text, after)
  IN  IF after # 0 /\ PhoneStop(text, g) # 0
      THEN [start |-> i, group |-> g, stop |-> PhoneStop(text, g)]
      ELSE NoMatch

\* The position after the last of at most `left` words that follow one
\* another from i on, each of two letters or more and each but the last
\* followed by one whitespace character; 0 when no word starts at i
RECURSIVE WordsStop(_, _, _)
WordsStop(text, i, left) ==
  LET n == RunLen(text, i, Letters)
  IN  IF n < 2 THEN 0
      ELSE IF left > 1 /\ RunLen(text, i + n, Whitespace) >= 1
                       /\ WordsStop(text, i + n + 1, left - 1) # 0
           THEN WordsStop(text, i + n + 1, left - 1)
           ELSE i + n

\* regex_name at i: (?P<name>(?:[A-Z][a-z]+\s){1,3}[A-Z][a-z]+), two to
\* four words
MatchNameAt(text, i) ==
  LET n == RunLen(text, i, Letters)
  IN  IF /\ n >= 2
         /\ RunLen(text, i + n, Whitespace) >= 1
         /\ WordsStop(text, i + n + 1, 3) # 0
      THEN [start |-> i, group |-> i, stop |-> WordsStop(text, i + n + 1, 3)]
      ELSE NoMatch

MatchAt(kind, text, i) ==
  CASE kind = "name"  -> MatchNameAt(text, i)
    [] kind = "mrn"   -> MatchMrnAt(text, i)
    [] kind = "dob"   -> MatchDobAt(text, i)
    [] kind = "phone" -> MatchPhoneAt(text, i)

\* pattern.finditer(text): the leftmost matches that do not overlap
RECURSIVE FindIter(_, _, _)
FindIter(kind, text, i) ==
  IF i > Len(text) THEN <<>>
  ELSE LET m == MatchAt(kind, text, i)
       IN  IF m.stop = 0 THEN FindIter(kind, text, i + 1)
           ELSE <<m>> \o FindIter(kind, text, m.stop)

\* ------------------------------------------------------------------------
\* entity_extractor.EntityExtractor
\* ------------------------------------------------------------------------
OCRWord(text, confidence) == [text |-> text, confidence |-> confidence]

\* value.split("\n")[0]
RECURSIVE truncate_value(_)
truncate_value(value) ==
  IF value = <<>> \/ Head(value) = "\n" THEN <<>>
  ELSE <<Head(value)>> \o truncate_value(Tail(value))

\* token.strip(",:")
RECURSIVE StripPunctuation(_)
StripPunctuation(token) ==
  IF token # <<>> /\ Head(token) \in {",", ":"} THEN StripPunctuation(Tail(token))
  ELSE IF token # <<>> /\ token[Len(token)] \in {",", ":"}
       THEN StripPunctuation(SubSeq(token, 1, Len(token) - 1))
       ELSE token

\* str.capitalize()
Capitalize(token) ==
  IF token = <<>> THEN <<>> ELSE <<Upper(Head(token))>> \o MapLower(Tail(token))

RECURSIVE JoinCapitalized(_)
JoinCapitalized(tokens) ==
  IF tokens = <<>> THEN <<>>
  ELSE IF Len(tokens) = 1 THEN Capitalize(StripPunctuation(Head(tokens)))
  ELSE Capitalize(StripPunctuation(Head(tokens))) \o <<" ">> \o JoinCapitalized(Tail(tokens))

normalize_value(kind, value) ==
  CASE kind = "mrn"  -> MapUpper(KeepOnly(Strip(value), Letters \cup Digits))
    [] kind = "dob"  -> ReplaceChar(Strip(value), ".", "/")
    [] kind = "name" ->
         JoinCapitalized(SelectSeq(Tokens(Strip(value)),
                                   LAMBDA t : StripPunctuation(t) # <<>>))
    [] OTHER -> Strip(value)

\* lower_text.index(needle, cursor): the first position from cursor on
\* where the needle stands, 0 when it stands nowhere (ValueError)
RECURSIVE IndexFrom(_, _, _)
IndexFrom(text, needle, cursor) ==
  IF cursor + Len(needle) - 1 > Len(text) THEN 0
  ELSE IF StartsWith(text, cursor, MapLower(needle)) THEN cursor
  ELSE IndexFrom(text, needle, cursor + 1)

\* The loop of _map_to_words from word idx on; positions count from 1 and
\* the indices it returns from 0
RECURSIVE MapWordsFrom(_, _, _, _, _, _)
MapWordsFrom(words, idx, cursor, start, end, text) ==
  IF idx > Len(words) THEN <<>>
  ELSE IF words[idx].text = <<>>
       THEN MapWordsFrom(words, idx + 1, cursor, start, end, text)
  ELSE LET word_start == IndexFrom(text, words[idx].text, cursor)
           word_end   == word_start + Len(words[idx].text)
       IN  IF word_start = 0
           THEN MapWordsFrom(words, idx + 1, cursor, start, end, text)
           ELSE (IF word_end < start \/ word_start > end THEN <<>> ELSE <<idx - 1>>)
                  \o MapWordsFrom(words, idx + 1, word_end, start, end, text)

map_to_words(words, start, end, full_text) ==
  MapWordsFrom(words, 1, 1, start, end, full_text)

RECURSIVE SumConfidence(_, _)
SumConfidence(word_indices, words) ==
  IF word_indices = <<>> THEN 0
  ELSE words[Head(word_indices) + 1].confidence + SumConfidence(Tail(word_indices), words)

\* base 0.6, + 0.1 for a name or a dob, + min(len(value) / 12, 0.2) for an mrn
BaseConfidence(kind, value) ==
  600000 + (CASE kind = "name" -> 100000
              [] kind = "mrn"  -> Min((Len(value) * Unit) \div 12, 200000)
              [] kind = "dob"  -> 100000
              [] OTHER -> 0)

confidence(kind, value, word_indices, words) ==
  IF word_indices = <<>> THEN BaseConfidence(kind, value)
  ELSE Min(Unit, BaseConfidence(kind, value)
                   + (SumConfidence(word_indices, words) \div Len(word_indices)) \div 5)

MatchCandidate(kind, value, conf, word_indices) ==
  [ kind |-> kind, value |-> value, confidence |-> conf, word_indices |-> word_indices ]

\* The candidate _match_pattern computes for one match, before the test of
\* its confidence
CandidateWith(kind, normalized_value, word_indices, words) ==
  MatchCandidate(kind, normalized_value,
                 confidence(kind, normalized_value, word_indices, words), word_indices)

CandidateIn(kind, ocr_result, m, truncated_value) ==
  CandidateWith(kind, normalize_value(kind, truncated_value),
                map_to_words(ocr_result.words, m.start,
                             m.start + Len(truncated_value), ocr_result.text),
                ocr_result.words)

CandidateOf(kind, ocr_result, m) ==
  CandidateIn(kind, ocr_result, m,
              truncate_value(SubSeq(ocr_result.text, m.group, m.stop - 1)))

\* The candidates of every match of the pattern, in the order of the text
Candidates(kind, ocr_result) ==
  LET found == FindIter(kind, ocr_result.text, 1)
  IN  [ k \in 1..Len(found) |-> CandidateOf(kind, ocr_result, found[k]) ]

\* Every candidate appended, whatever its confidence
match_pattern_Unfiltered(kind, ocr_result, all, entity_min_confidence) == all

\* if confidence < self.settings.entity_min_confidence: continue
match_pattern(kind, ocr_result, all, entity_min_confidence) ==
  SelectSeq(all, LAMBDA c : ~(c.confidence < entity_min_confidence))

\* The position in unique of the key (kind, value), 0 when it is not there
KeyAt(unique, candidate) ==
  IF \E k \in 1..Len(unique) :
       unique[k].kind = candidate.kind /\ unique[k].value = candidate.value
  THEN CHOOSE k \in 1..Len(unique) :
         unique[k].kind = candidate.kind /\ unique[k].value = candidate.value
  ELSE 0

\* The last candidate of a key kept, whatever its confidence
Unique_KeepLast(unique, candidate, at) ==
  IF at = 0 THEN Append(unique, candidate) ELSE [unique EXCEPT ![at] = candidate]

\* One round of the loop of _deduplicate on the dict unique, whose keys
\* stay in the order of their insertion
Unique(unique, candidate, at) ==
  IF at = 0 THEN Append(unique, candidate)
  ELSE IF unique[at].confidence < candidate.confidence
       THEN [unique EXCEPT ![at] = candidate]
       ELSE unique

RECURSIVE Deduplicated(_, _)
Deduplicated(candidates, unique) ==
  IF candidates = <<>> THEN unique
  ELSE Deduplicated(Tail(candidates),
                    Unique(unique, Head(candidates), KeyAt(unique, Head(candidates))))

deduplicate(candidates) == Deduplicated(candidates, <<>>)

build_identifier(candidate) ==
  IdentifierMatch(candidate.kind, candidate.value, Round3(candidate.confidence),
                  candidate.word_indices)

\* The order in which _collect_matches applies the patterns
PatternOrder == <<"name", "mrn", "dob", "phone">>

\* The candidates of the four patterns before the test of their confidence
AllCandidates(ocr_result) ==
  [ k \in 1..4 |-> Candidates(PatternOrder[k], ocr_result) ]

\* The mrn pattern applied before the name pattern
collect_matches_MrnFirst(ocr_result, all, entity_min_confidence) ==
  deduplicate(match_pattern("mrn", ocr_result, all[2], entity_min_confidence)
                \o match_pattern("name", ocr_result, all[1], entity_min_confidence)
                \o match_pattern("dob", ocr_result, all[3], entity_min_confidence)
                \o match_pattern("phone", ocr_result, all[4], entity_min_confidence))

collect_matches(ocr_result, all, entity_min_confidence) ==
  deduplicate(match_pattern("name", ocr_result, all[1], entity_min_confidence)
                \o match_pattern("mrn", ocr_result, all[2], entity_min_confidence)
                \o match_pattern("dob", ocr_result, all[3], entity_min_confidence)
                \o match_pattern("phone", ocr_result, all[4], entity_min_confidence))

BuiltIdentifiers(matches) == [ k \in 1..Len(matches) |-> build_identifier(matches[k]) ]

extract_page(ocr_result, all, entity_min_confidence) ==
  [ page_index  |-> ocr_result.page_index,
    identifiers |-> BuiltIdentifiers(collect_matches(ocr_result, all,
                                                     entity_min_confidence)) ]

\* ------------------------------------------------------------------------
\* State
\* ------------------------------------------------------------------------
VARIABLES
  settings,          \* the Settings shared by linker and assigner
  pool,              \* the identifiers the document is drawn from
  pc,                \* "link", "linked", "assigned", "relinked" or "raised"
  pages,             \* the PageEntities link has read so far
  clusters,          \* link: the list of ClusterCandidate
  anchor_positions,  \* link: the (idx, cluster) anchors of the current page
  next_patient,      \* the next value of the counter _next_patient
  resolved,          \* per page, the cluster, branch and best_score of every identifier
  patients,          \* the list of LinkedPatient link returned
  summary,           \* the DocumentAssignmentSummary assign_pages returned
  page_scores,       \* per page, the scores of _assign_single_page (line 72)
  again,             \* the list link returned when called a second time
  dob_pc,            \* score_dob: "ready", "returned" or "raised"
  dob_a,             \* score_dob: its first argument
  dob_b,             \* score_dob: its second argument
  dob_score,         \* score_dob: the value it returned
  extract_pc,        \* extract_page: "ready" or "extracted"
  entity_min_confidence,  \* the setting of the extractor
  ocr,               \* extract_page: the OCRResult it is given
  matched,           \* extract_page: per pattern, the candidate of every match
  entities           \* extract_page: the PageEntities it returned

\* The state of a document going through link and assign_pages
linker_vars == << settings, pool, pc, pages, clusters, anchor_positions, next_patient,
                 resolved, patients, summary, page_scores, again >>

\* The state of a call of FuzzyMatcher.score_dob
matcher_vars == << dob_pc, dob_a, dob_b, dob_score >>

\* The state of a call of EntityExtractor.extract_page
extractor_vars == << extract_pc, entity_min_confidence, ocr, matched, entities >>

vars == << linker_vars, matcher_vars, extractor_vars >>

\* No call of score_dob is under way
MatcherReady == dob_pc = "ready" /\ dob_a = <<>> /\ dob_b = <<>> /\ dob_score = 0

OCRResult(page_index, text, words) ==
  [ page_index |-> page_index, text |-> text, words |-> words ]

\* An extractor with the default patterns before the page is recognised
ExtractorReady ==
  /\ extract_pc = "ready"
  /\ ocr = OCRResult(0, <<>>, <<>>)
  /\ matched = <<>>
  /\ entities = <<>>

RECURSIVE SumLen(_)
SumLen(ps) == IF ps = <<>> THEN 0 ELSE Len(Head(ps).identifiers) + SumLen(Tail(ps))

\* A newly constructed linker whose link has been called
Init ==
  /\ \E sc \in Scenarios : settings = sc.settings /\ pool = sc.pool
  /\ pc = "link"
  /\ pages = <<>>
  /\ clusters = <<>>
  /\ anchor_positions = <<>>
  /\ next_patient = 1
  /\ resolved = <<>>
  /\ patients = <<>>
  /\ summary = EmptySummary
  /\ page_scores = <<>>
  /\ again = <<>>
  /\ MatcherReady
  /\ ExtractorReady
  /\ entity_min_confidence = 500000

\* for page in pages: the next page of the document, in page order
NextPage ==
  /\ pc = "link"
  /\ Len(pages) < MaxPages
  /\ pages' = Append(pages, [page_index |-> Len(pages), identifiers |-> <<>>])
  /\ resolved' = Append(resolved, <<>>)
  /\ anchor_positions' = <<>>
  /\ UNCHANGED << again, settings, pool, pc, clusters, next_patient, patients, summary, page_scores >>
  /\ UNCHANGED << matcher_vars, extractor_vars >>

\* The assignments of one round of the inner loop, r being its outcome
Resolve(identifier, r) ==
  /\ pages' = [pages EXCEPT ![Len(pages)].identifiers = Append(@, identifier)]
  /\ clusters' = r.clusters
  /\ anchor_positions' = r.anchor_positions
  /\ next_patient' = r.next_patient
  /\ resolved' = [resolved EXCEPT ![Len(pages)] =
                    Append(@, [cluster |-> r.cluster, how |-> r.how,
                               score |-> r.score, preferred |-> r.preferred])]

\* for idx, identifier in indexed_identifiers: the next identifier of the page
ResolveIdentifier ==
  /\ pc = "link"
  /\ pages # <<>>
  /\ SumLen(pages) < MaxIdentifiers
  /\ \E identifier \in pool :
       /\ \A c \in 1..Len(clusters) : ~match_identifier_raises(clusters[c], identifier)
       /\ Resolve(identifier,
                  LinkIdentifier(settings, clusters, anchor_positions, next_patient,
                                 identifier, pages[Len(pages)].page_index,
                                 Len(pages[Len(pages)].identifiers)))
  /\ UNCHANGED << again, settings, pool, pc, patients, summary, page_scores >>
  /\ UNCHANGED << matcher_vars, extractor_vars >>

\* The ValueError of _normalize_dob leaves link through _match_identifier
LinkRaises ==
  /\ pc = "link"
  /\ pages # <<>>
  /\ SumLen(pages) < MaxIdentifiers
  /\ \E identifier \in pool :
       /\ \E c \in 1..Len(clusters) : match_identifier_raises(clusters[c], identifier)
       /\ pages' = [pages EXCEPT ![Len(pages)].identifiers = Append(@, identifier)]
  /\ pc' = "raised"
  /\ UNCHANGED << again, settings, pool, clusters, anchor_positions, next_patient,
                  resolved, patients, summary, page_scores >>
  /\ UNCHANGED << matcher_vars, extractor_vars >>

\* return [self._to_linked_patient(cluster) for cluster in clusters]
LinkReturn ==
  /\ pc = "link"
  /\ patients' = [ i \in 1..Len(clusters) |-> to_linked_patient(clusters[i]) ]
  /\ pc' = "linked"
  /\ UNCHANGED << again, settings, pool, pages, clusters, anchor_positions, next_patient,
                  resolved, summary, page_scores >>
  /\ UNCHANGED << matcher_vars, extractor_vars >>

\* assign_pages(page_entities, patients) on the pages link was given
AssignPages ==
  /\ pc = "linked"
  /\ ~assign_pages_raises(pages, patients)
  /\ summary' = assign_pages(settings, pages, patients)
  /\ page_scores' = [ p \in 1..Len(pages) |->
                       [ q \in 1..Len(patients) |->
                           score_page(settings, pages[p], patients[q]) ] ]
  /\ pc' = "assigned"
  /\ UNCHANGED << again, settings, pool, pages, clusters, anchor_positions, next_patient,
                  resolved, patients >>
  /\ UNCHANGED << matcher_vars, extractor_vars >>

AssignRaises ==
  /\ pc = "linked"
  /\ assign_pages_raises(pages, patients)
  /\ pc' = "raised"
  /\ UNCHANGED << again, settings, pool, pages, clusters, anchor_positions, next_patient,
                  resolved, patients, summary, page_scores >>
  /\ UNCHANGED << matcher_vars, extractor_vars >>

\* The assignments of a second call of link, r being its outcome
Relinked(r) ==
  /\ again' = [ i \in 1..Len(r.clusters) |-> to_linked_patient(r.clusters[i]) ]
  /\ next_patient' = r.next_patient

\* link called again on the same linker with the same pages, as the cached
\* orchestrator of the API does for the next document
LinkAgain ==
  /\ pc = "linked"
  /\ Relinked(link(settings, pages, next_patient))
  /\ pc' = "relinked"
  /\ UNCHANGED << settings, pool, pages, clusters, anchor_positions, resolved,
                  patients, summary, page_scores >>
  /\ UNCHANGED << matcher_vars, extractor_vars >>

Next ==
  \/ NextPage
  \/ ResolveIdentifier
  \/ LinkRaises
  \/ LinkReturn
  \/ AssignPages
  \/ AssignRaises
  \/ LinkAgain

Spec == Init /\ [][Next]_vars

\* One call of link on a newly constructed linker, up to its return
LinkNext ==
  \/ NextPage
  \/ ResolveIdentifier
  \/ LinkRaises
  \/ LinkReturn

LinkSpec == Init /\ [][LinkNext]_vars

\* One document through link and then assign_pages, as process_document of
\* the orchestrator runs them
AssignNext ==
  \/ NextPage
  \/ ResolveIdentifier
  \/ LinkRaises
  \/ LinkReturn
  \/ AssignPages
  \/ AssignRaises

AssignSpec == Init /\ [][AssignNext]_vars

\* ------------------------------------------------------------------------
\* FuzzyMatcher.score_dob called on its own, on pairs of dob values
\* ------------------------------------------------------------------------
DobMonths == { <<"1">>, <<"0", "1">>, <<"1", "1">> }
DobDays == { <<"2">>, <<"0", "2">> }
DobYears ==
  { <<"9", "0">>, <<"1", "9", "9", "0">>, <<"4", "9">>, <<"2", "0", "4", "9">>,
    <<"5", "0">>, <<"1", "9", "5", "0">>, <<"x", "9">> }
DobSeparators == { "/", "-", "." }

\* Dates written month, day, year, and values that are not a date
DobInputs ==
  { m \o <<s>> \o d \o <<s>> \o y :
      m \in DobMonths, d \in DobDays, y \in DobYears, s \in DobSeparators }
  \cup { m \o <<s>> \o y : m \in DobMonths, y \in {<<"9", "0">>}, s \in DobSeparators }
  \cup { <<"1", "9", "9", "0">>, <<>> }

\* No document is being linked
LinkerIdle ==
  /\ settings = DefaultSettings
  /\ pool = {}
  /\ pc = "idle"
  /\ pages = <<>>
  /\ clusters = <<>>
  /\ anchor_positions = <<>>
  /\ next_patient = 1
  /\ resolved = <<>>
  /\ patients = <<>>
  /\ summary = EmptySummary
  /\ page_scores = <<>>
  /\ again = <<>>

DobInit ==
  /\ LinkerIdle
  /\ MatcherReady
  /\ ExtractorReady
  /\ entity_min_confidence = 500000

\* matcher.score_dob(a, b) returns
ScoreDob ==
  /\ dob_pc = "ready"
  /\ \E a \in DobInputs : \E b \in DobInputs :
       /\ ~normalize_dob_raises(a) /\ ~normalize_dob_raises(b)
       /\ dob_a' = a
       /\ dob_b' = b
       /\ dob_score' = score_dob(a, b)
  /\ dob_pc' = "returned"
  /\ UNCHANGED << linker_vars, extractor_vars >>

\* int(year) raises ValueError inside _normalize_dob
ScoreDobRaises ==
  /\ dob_pc = "ready"
  /\ \E a \in DobInputs : \E b \in DobInputs :
       /\ normalize_dob_raises(a) \/ normalize_dob_raises(b)
       /\ dob_a' = a
       /\ dob_b' = b
  /\ dob_pc' = "raised"
  /\ UNCHANGED << dob_score, linker_vars, extractor_vars >>

DobNext ==
  \/ ScoreDob
  \/ ScoreDobRaises

DobSpec == DobInit /\ [][DobNext]_vars

\* ------------------------------------------------------------------------
\* EntityExtractor.extract_page called on one recognised page
\* ------------------------------------------------------------------------
\* The lines a page is made of, each with the words the OCR reads in it
Lines ==
  { [ text  |-> <<"M", "R", "N", ":", " ", "1", "2", "3", "4", "5", "6">>,
      words |-> << <<"M", "R", "N">>, <<"1", "2", "3", "4", "5", "6">> >> ],
    [ text  |-> <<"M", "R", "N", ":", " ", "1", "2", "3", "-", "4", "5", "6">>,
      words |-> << <<"M", "R", "N">>, <<"1", "2", "3", "-", "4", "5", "6">> >> ],
    [ text  |-> <<"M", "R", "N", ":", " ", "1", "2">>,
      words |-> << <<"M", "R", "N">>, <<"1", "2">> >> ],
    [ text  |-> <<"D", "O", "B", ":", " ", "0", "1", "-", "0", "2", "-", "1", "9", "9", "0">>,
      words |-> << <<"D", "O", "B">>,
                   <<"0", "1", "-", "0", "2", "-", "1", "9", "9", "0">> >> ],
    [ text  |-> <<"D", "O", "B", ":", " ", "0", "1", "/", "0", "2", "/", "1", "9", "9", "0">>,
      words |-> << <<"D", "O", "B">>,
                   <<"0", "1", "/", "0", "2", "/", "1", "9", "9", "0">> >> ],
    [ text  |-> <<"J", "o", " ", "D", "o", "e">>,
      words |-> << <<"J", "o">>, <<"D", "o", "e">> >> ],
    [ text  |-> <<"T", "e", "l", ":", " ", "5", "5", "5", "-", "1", "1", "1", "-",
                  "2", "2", "2", "2">>,
      words |-> << <<"T", "e", "l">>,
                   <<"5", "5", "5", "-", "1", "1", "1", "-", "2", "2", "2", "2">> >> ] }

\* The confidence the OCR gives the words of a line
WordConfidences == { 200000, 900000 }

\* The values of entity_min_confidence: the default and the one of the test
MinConfidences == { 500000, 900000 }

LineCount(text) ==
  IF text = <<>> THEN 0 ELSE 1 + Cardinality({ i \in 1..Len(text) : text[i] = "\n" })

ExtractInit ==
  /\ LinkerIdle
  /\ MatcherReady
  /\ ExtractorReady
  /\ entity_min_confidence \in MinConfidences

\* The OCR recognises one more line of the page, with or without its words
RecogniseLine ==
  /\ extract_pc = "ready"
  /\ LineCount(ocr.text) < MaxLines
  /\ \E line \in Lines :
       \E words \in { <<>> } \cup
                     { [ w \in 1..Len(line.words) |-> OCRWord(line.words[w], c) ] :
                         c \in WordConfidences } :
         ocr' = OCRResult(ocr.page_index,
                          IF ocr.text = <<>> THEN line.text
                          ELSE ocr.text \o <<"\n">> \o line.text,
                          ocr.words \o words)
  /\ UNCHANGED << extract_pc, entity_min_confidence, matched, entities,
                  linker_vars, matcher_vars >>

\* The assignments of extract_page, all being the candidates of its matches
Extracted(all) ==
  /\ matched' = all
  /\ entities' = extract_page(ocr, all, entity_min_confidence)

\* extractor.extract_page(ocr_result)
ExtractPage ==
  /\ extract_pc = "ready"
  /\ Extracted(AllCandidates(ocr))
  /\ extract_pc' = "extracted"
  /\ UNCHANGED << entity_min_confidence, ocr, linker_vars, matcher_vars >>

\* process_pdf hands the page entities to link: link starts on the page
LinkExtracted ==
  /\ extract_pc = "extracted"
  /\ pc = "idle"
  /\ pc' = "link"
  /\ pages' = << [page_index |-> entities.page_index, identifiers |-> <<>>] >>
  /\ resolved' = << <<>> >>
  /\ anchor_positions' = <<>>
  /\ UNCHANGED << again, settings, pool, clusters, next_patient, patients, summary, page_scores >>
  /\ UNCHANGED << matcher_vars, extractor_vars >>

\* for idx, identifier in indexed_identifiers, on the extracted identifiers
ResolveExtracted ==
  /\ extract_pc = "extracted"
  /\ pc = "link"
  /\ Len(pages[1].identifiers) < Len(entities.identifiers)
  /\ LET identifier == entities.identifiers[Len(pages[1].identifiers) + 1]
     IN  /\ \A c \in 1..Len(clusters) : ~match_identifier_raises(clusters[c], identifier)
         /\ Resolve(identifier,
                    LinkIdentifier(settings, clusters, anchor_positions, next_patient,
                                   identifier, pages[1].page_index,
                                   Len(pages[1].identifiers)))
  /\ UNCHANGED << again, settings, pool, pc, patients, summary, page_scores >>
  /\ UNCHANGED << matcher_vars, extractor_vars >>

\* link returns the patients of the extracted page
LinkExtractedReturn ==
  /\ extract_pc = "extracted"
  /\ pc = "link"
  /\ Len(pages[1].identifiers) = Len(entities.identifiers)
  /\ patients' = [ i \in 1..Len(clusters) |-> to_linked_patient(clusters[i]) ]
  /\ pc' = "linked"
  /\ UNCHANGED << again, settings, pool, pages, clusters, anchor_positions, next_patient,
                  resolved, summary, page_scores >>
  /\ UNCHANGED << matcher_vars, extractor_vars >>

ExtractNext ==
  \/ RecogniseLine
  \/ ExtractPage
  \/ LinkExtracted
  \/ ResolveExtracted
  \/ LinkExtractedReturn

ExtractSpec == ExtractInit /\ [][ExtractNext]_vars

\* ------------------------------------------------------------------------
\* Properties
\* ------------------------------------------------------------------------
\* link has returned its list of LinkedPatient
Returned == pc \in {"linked", "assigned"}

Range(xs) == { xs[i] : i \in 1..Len(xs) }

PositionsOf(page, kind) ==
  { i \in 1..Len(page.identifiers) : page.identifiers[i].kind = kind }

ValuesOf(page, kind) ==
  { page.identifiers[i].value : i \in PositionsOf(page, kind) }

DocValues(kind) == UNION { ValuesOf(pages[p], kind) : p \in 1..Len(pages) }

KindsOf(page) == [ i \in 1..Len(page.identifiers) |-> page.identifiers[i].kind ]

\* The page carries one name and one dob and nothing else
NameAndDob(page) ==
  /\ Len(page.identifiers) = 2
  /\ Range(KindsOf(page)) = {"name", "dob"}

TheValue(page, kind) == CHOOSE v \in ValuesOf(page, kind) : TRUE

\* The cluster an identifier of the document resolved into
ClusterOf(p, i) == resolved[p][i].cluster

\* C1: when two pages each carry an mrn of the same value and no other mrn
\* value occurs in the document, link returns exactly one cluster and its
\* pages hold both page indices, wherever the mrn stands on its page.
C1_SameMrnOneCluster ==
  ( /\ Returned
    /\ Len(pages) = 2
    /\ \A p \in 1..2 : PositionsOf(pages[p], "mrn") # {}
    /\ Cardinality(DocValues("mrn")) = 1
    /\ \A v \in DocValues("mrn") : Similarity("mrn", v, v) = Unit )
  => /\ Len(patients) = 1
     /\ {0, 1} \subseteq Range(patients[1].pages)

\* C2: two mrn identifiers on two pages whose values score below the mrn
\* threshold, the document holding no third mrn value, resolve into two
\* different clusters with different patient ids, whatever names the pages
\* share.
C2_DistinctMrnDistinctClusters ==
  \A p \in 1..Len(resolved) : \A q \in 1..Len(resolved) :
    \A i \in 1..Len(resolved[p]) : \A j \in 1..Len(resolved[q]) :
      ( /\ p # q
        /\ pages[p].identifiers[i].kind = "mrn"
        /\ pages[q].identifiers[j].kind = "mrn"
        /\ DocValues("mrn") = { pages[p].identifiers[i].value,
                                pages[q].identifiers[j].value }
        /\ Similarity("mrn", pages[p].identifiers[i].value,
                      pages[q].identifiers[j].value)
             < settings.mrn_match_threshold )
      => /\ ClusterOf(p, i) # ClusterOf(q, j)
         /\ clusters[ClusterOf(p, i)].patient_id
              # clusters[ClusterOf(q, j)].patient_id

\* Two pages with differing mrn values share an identical name value and
\* link has returned
C2_Witness ==
  /\ Returned
  /\ Len(pages) = 2
  /\ \E i \in PositionsOf(pages[1], "mrn") : \E j \in PositionsOf(pages[2], "mrn") :
       /\ Similarity("mrn", pages[1].identifiers[i].value,
                     pages[2].identifiers[j].value) < settings.mrn_match_threshold
       /\ DocValues("mrn") = { pages[1].identifiers[i].value,
                               pages[2].identifiers[j].value }
  /\ ValuesOf(pages[1], "name") # {}
  /\ ValuesOf(pages[1], "name") = ValuesOf(pages[2], "name")
  /\ Len(patients) = 2

\* C3: two pages without mrn, each a name followed by a dob, the names
\* scoring at or above the name threshold and the dobs scoring 0, come back
\* as two distinct clusters.
C3_ConflictingDobTwoClusters ==
  ( /\ Returned
    /\ Len(pages) = 2
    /\ \A p \in 1..2 : KindsOf(pages[p]) = <<"name", "dob">>
    /\ Similarity("name", pages[1].identifiers[1].value,
                  pages[2].identifiers[1].value) >= settings.name_match_threshold
    /\ Similarity("dob", pages[1].identifiers[2].value,
                  pages[2].identifiers[2].value) = 0 )
  => /\ Len(patients) = 2
     /\ patients[1].patient_id # patients[2].patient_id

\* C4: on the first page of a document, two mrn identifiers, the only ones
\* of the page, whose values score below the mrn threshold each create a
\* new cluster, and the two clusters differ.
C4_TwoMrnsTwoClusters ==
  resolved # <<>> =>
  \A i \in 1..Len(resolved[1]) : \A j \in 1..Len(resolved[1]) :
    ( /\ i < j
      /\ PositionsOf(pages[1], "mrn") = {i, j}
      /\ Similarity("mrn", pages[1].identifiers[i].value,
                    pages[1].identifiers[j].value) < settings.mrn_match_threshold )
    => /\ resolved[1][i].how = "create"
       /\ resolved[1][j].how = "create"
       /\ ClusterOf(1, i) # ClusterOf(1, j)

\* The first page held two distinct mrn values next to a supportive
\* identifier and link has returned
C4_Witness ==
  /\ Returned
  /\ resolved # <<>>
  /\ \E i \in 1..Len(resolved[1]) : \E j \in 1..Len(resolved[1]) :
       /\ i < j
       /\ PositionsOf(pages[1], "mrn") = {i, j}
       /\ Similarity("mrn", pages[1].identifiers[i].value,
                     pages[1].identifiers[j].value) < settings.mrn_match_threshold
  /\ PositionsOf(pages[1], "name") # {}
  /\ Len(patients) >= 2

\* C5: two pages without mrn, each carrying one name and one dob, the names
\* scoring at or above the name threshold and the dobs equal after
\* normalisation, come back as exactly one cluster holding both pages.
C5_SameNameSameDobOneCluster ==
  ( /\ Returned
    /\ Len(pages) = 2
    /\ \A p \in 1..2 : NameAndDob(pages[p])
    /\ Similarity("name", TheValue(pages[1], "name"), TheValue(pages[2], "name"))
         >= settings.name_match_threshold
    /\ normalize_dob(TheValue(pages[1], "dob")) = normalize_dob(TheValue(pages[2], "dob")) )
  => /\ Len(patients) = 1
     /\ patients[1].pages = <<0, 1>>

\* Two such pages whose names and dobs are written differently, the second
\* page opening with its dob
C5_Witness ==
  /\ Returned
  /\ Len(pages) = 2
  /\ \A p \in 1..2 : NameAndDob(pages[p])
  /\ KindsOf(pages[2]) = <<"dob", "name">>
  /\ TheValue(pages[1], "dob") # TheValue(pages[2], "dob")
  /\ normalize_dob(TheValue(pages[1], "dob")) = normalize_dob(TheValue(pages[2], "dob"))
  /\ Similarity("name", TheValue(pages[1], "name"), TheValue(pages[2], "name"))
       >= settings.name_match_threshold
  /\ Len(patients) = 1

\* The ranked scores of a page of the document against the returned patients
ScoresOf(p) ==
  SortByScore(SelectSeq(page_scores[p], LAMBDA sc : sc.score > 0), <<>>)

\* The top ranked score of the page
TopOf(p) == ScoresOf(p)[1]

\* The top two scores of the page are above 0 and differ by no more than
\* the margin
Contested(p) ==
  LET scores == ScoresOf(p)
  IN  /\ Len(scores) >= 2
      /\ scores[1].score - scores[2].score <= settings.assign_ambiguity_margin

\* C6 as stated: a page for which at least two clusters score above 0 and
\* the top two scores differ by no more than the margin has manual_review
\* true and is listed in ambiguous_pages, whether or not a patient id was
\* assigned.
C6_AmbiguousAlwaysListed ==
  pc = "assigned" =>
    \A p \in 1..Len(pages) :
      Contested(p)
      => /\ summary.assignments[p].manual_review
         /\ pages[p].page_index \in Range(summary.ambiguous_pages)

\* C6 amended: such a page has manual_review true; it is listed in
\* ambiguous_pages and not in unassigned_pages when a patient id was
\* assigned, and in unassigned_pages and not in ambiguous_pages when none
\* was.
C6_AmbiguousListedWhenAssigned ==
  pc = "assigned" =>
    \A p \in 1..Len(pages) :
      Contested(p)
      => /\ summary.assignments[p].manual_review
         /\ (pages[p].page_index \in Range(summary.ambiguous_pages))
              <=> (summary.assignments[p].patient_id # NoPatient)
         /\ (pages[p].page_index \in Range(summary.unassigned_pages))
              <=> (summary.assignments[p].patient_id = NoPatient)

\* A contested page was assigned its top cluster, at or above the minimum
\* confidence
C6_Witness ==
  /\ pc = "assigned"
  /\ \E p \in 1..Len(pages) :
       /\ Contested(p)
       /\ TopOf(p).score >= settings.assign_min_confidence
       /\ summary.assignments[p].patient_id = TopOf(p).patient_id

\* The top score of the page is above 0 and below assign_min_confidence
BelowMinConfidence(p) ==
  LET scores == ScoresOf(p)
  IN  /\ scores # <<>>
      /\ scores[1].score < settings.assign_min_confidence

\* C7 as stated: below the minimum confidence the page is flagged; with
\* assign_allow_unassigned the id is absent, without it the top cluster's id
\* is kept, the confidence is the top score and the reasons list is empty.
C7_KeptTopHasNoReasons ==
  pc = "assigned" =>
    \A p \in 1..Len(pages) :
      BelowMinConfidence(p)
      => /\ summary.assignments[p].manual_review
         /\ settings.assign_allow_unassigned
              => summary.assignments[p].patient_id = NoPatient
         /\ ~settings.assign_allow_unassigned
              => LET top == TopOf(p)
                 IN  /\ summary.assignments[p].patient_id = top.patient_id
                     /\ summary.assignments[p].confidence = top.score
                     /\ summary.assignments[p].reasons = <<>>

\* C7 amended: below the minimum confidence the page is flagged and the
\* confidence is the top score; with assign_allow_unassigned the id is absent
\* and the reasons list is empty, without it the top cluster's id is kept
\* together with the top cluster's reasons, which are not empty.
C7_KeptTopKeepsReasons ==
  pc = "assigned" =>
    \A p \in 1..Len(pages) :
      BelowMinConfidence(p)
      => LET top == TopOf(p)
         IN  /\ summary.assignments[p].manual_review
             /\ summary.assignments[p].confidence = top.score
             /\ settings.assign_allow_unassigned
                  => /\ summary.assignments[p].patient_id = NoPatient
                     /\ summary.assignments[p].reasons = <<>>
             /\ ~settings.assign_allow_unassigned
                  => /\ summary.assignments[p].patient_id = top.patient_id
                     /\ summary.assignments[p].reasons = top.reasons
                     /\ summary.assignments[p].reasons # <<>>

\* A page below the minimum confidence was assigned with
\* assign_allow_unassigned false
C7_Witness ==
  /\ pc = "assigned"
  /\ ~settings.assign_allow_unassigned
  /\ \E p \in 1..Len(pages) :
       /\ BelowMinConfidence(p)
       /\ summary.assignments[p].patient_id # NoPatient

\* No returned patient scores above 0 for the page
NothingScores(p) ==
  \A q \in 1..Len(patients) : page_scores[p][q].score = 0

\* C8: a page for which no cluster scores above 0 has no patient id,
\* confidence 0, no reasons, manual_review true, and is listed in
\* unassigned_pages.
C8_NoScoreUnassigned ==
  pc = "assigned" =>
    \A p \in 1..Len(pages) :
      NothingScores(p)
      => /\ summary.assignments[p] =
              PageAssignment(pages[p].page_index, NoPatient, 0, <<>>, TRUE)
         /\ pages[p].page_index \in Range(summary.unassigned_pages)

\* A page with identifiers none of which matches any of the clusters link
\* returned, next to a page that was assigned
C8_Witness ==
  /\ pc = "assigned"
  /\ patients # <<>>
  /\ \E p \in 1..Len(pages) :
       /\ pages[p].identifiers # <<>>
       /\ NothingScores(p)
  /\ \E p \in 1..Len(pages) : ~NothingScores(p)

\* The mrn of a returned patient, <<>> when it has none
MrnOf(patient) ==
  IF \E c \in 1..Len(patient.identifiers) : patient.identifiers[c].kind = "mrn"
  THEN { patient.identifiers[c].value :
           c \in { d \in 1..Len(patient.identifiers) :
                     patient.identifiers[d].kind = "mrn" } }
  ELSE {}

NameOf(patient) ==
  { patient.identifiers[c].value :
      c \in { d \in 1..Len(patient.identifiers) :
                patient.identifiers[d].kind = "name" } }

\* The page holds an mrn that scores 1.0 against patient a and below the mrn
\* threshold against the mrn of every other patient
ExactMrnFor(p, a) ==
  \E m \in ValuesOf(pages[p], "mrn") :
    /\ \E v \in MrnOf(patients[a]) : Similarity("mrn", m, v) = Unit
    /\ \A b \in 1..Len(patients) : \A v \in MrnOf(patients[b]) :
         b # a => Similarity("mrn", m, v) < settings.mrn_match_threshold

OnlyMrnFor(p, a) ==
  /\ Cardinality(PositionsOf(pages[p], "mrn")) = 1
  /\ Cardinality(PositionsOf(pages[p], "name")) <= 1
  /\ Range(KindsOf(pages[p])) \subseteq {"mrn", "name"}
  /\ \A m \in ValuesOf(pages[p], "mrn") :
       /\ \E v \in MrnOf(patients[a]) : Similarity("mrn", m, v) = Unit
       /\ \A b \in 1..Len(patients) : \A v \in MrnOf(patients[b]) :
            b # a => Similarity("mrn", m, v) = 0

\* The name of the page scores at or above the name threshold against the
\* name of patient a
NameBacks(p, a) ==
  \E n \in ValuesOf(pages[p], "name") : \E v \in NameOf(patients[a]) :
    Similarity("name", n, v) >= settings.name_match_threshold

FreshLink == [ i \in 1..Len(link(settings, pages, 1).clusters) |->
               to_linked_patient(link(settings, pages, 1).clusters[i]) ]

\* C11: link called again with the same pages on the same linker, or on a
\* new linker with the same settings, returns a list identical to the first,
\* patient ids included.
C11_RelinkIdentical ==
  pc = "relinked" => (again = patients /\ FreshLink = patients)

\* C12: assign_pages returns one PageAssignment per input page, in input
\* order and carrying the page's index, so every input page index appears
\* exactly once among the assignments.
C12_OneAssignmentPerPage ==
  pc = "assigned" =>
    /\ Len(summary.assignments) = Len(pages)
    /\ \A p \in 1..Len(pages) :
         /\ summary.assignments[p].page_index = pages[p].page_index
         /\ Cardinality({ a \in 1..Len(summary.assignments) :
                            summary.assignments[a].page_index = pages[p].page_index }) = 1

\* Two pages were assigned, one to a patient and one to none
C12_Witness ==
  /\ pc = "assigned"
  /\ Len(pages) = 2
  /\ \E p \in 1..2 : \E q \in 1..2 :
       /\ summary.assignments[p].patient_id = NoPatient
       /\ summary.assignments[q].patient_id # NoPatient

\* The sum of the contributions a reasons list reports
RECURSIVE SumOfReasons(_)
SumOfReasons(reasons) ==
  IF reasons = <<>> THEN 0 ELSE Head(reasons).score + SumOfReasons(Tail(reasons))

\* The unrounded, unclamped total of the page against the patient whose
\* reasons the assignment of the page carries (0 when it carries none)
RawTotal(p) ==
  IF summary.assignments[p].reasons = <<>> THEN 0
  ELSE LET q == CHOOSE q \in 1..Len(patients) :
                  patients[q].patient_id = TopOf(p).patient_id
       IN  ScoreIdentifiers(settings, pages[p].identifiers, patients[q], 1,
                            [score |-> 0, reasons |-> <<>>]).score

\* C13 as stated: the contributions of the reasons of every PageAssignment
\* sum to at most its confidence, also when the raw sum reaches the clamp.
C13_ReasonsWithinConfidence ==
  pc = "assigned" =>
    \A p \in 1..Len(pages) :
      SumOfReasons(summary.assignments[p].reasons) <= summary.assignments[p].confidence

\* C13 amended: while the raw sum of the contributions is at most 1.0 the
\* reported contributions sum to at most the confidence plus the rounding
\* of each entry and of the confidence (0.0005 each); when the raw sum
\* exceeds 1.0 the confidence is 1.0 and the reasons keep their unclamped
\* contributions, whose sum is within the rounding of the raw sum.
C13_ReasonsWithinRounding ==
  pc = "assigned" =>
    \A p \in 1..Len(pages) :
      LET reasons == summary.assignments[p].reasons
          total   == SumOfReasons(reasons)
          raw     == RawTotal(p)
      IN  reasons # <<>> =>
            /\ raw <= Unit =>
                 total <= summary.assignments[p].confidence + 500 * (Len(reasons) + 1)
            /\ raw > Unit =>
                 /\ summary.assignments[p].confidence = Unit
                 /\ total >= raw - 500 * Len(reasons)

\* A page with two identifiers of one kind whose contributions sum to more
\* than 1.0 was assigned with confidence 1.0
C13_Witness ==
  /\ pc = "assigned"
  /\ \E p \in 1..Len(pages) :
       /\ Cardinality(PositionsOf(pages[p], "mrn")) >= 2
       /\ summary.assignments[p].confidence = Unit
       /\ SumOfReasons(summary.assignments[p].reasons) > Unit

\* The positions of a LinkedPatient's identifiers that are of the kind
OfKind(patient, kind) ==
  { j \in 1..Len(patient.identifiers) : patient.identifiers[j].kind = kind }

\* C14: in every state while link runs each cluster holds, under each kind
\* it knows, one LinkedIdentifier of that kind, and every LinkedPatient that
\* link returns lists at most one LinkedIdentifier per kind.
C14_OneIdentifierPerKind ==
  /\ \A c \in 1..Len(clusters) :
       \A k \in DOMAIN clusters[c].identifiers :
         /\ clusters[c].identifiers[k].kind = k
         /\ clusters[c].identifiers[k].sources # <<>>
  /\ \A q \in 1..Len(patients) :
       \A k \in Range(KindOrder) : Cardinality(OfKind(patients[q], k)) <= 1
  /\ \A q \in 1..Len(again) :
       \A k \in Range(KindOrder) : Cardinality(OfKind(again[q], k)) <= 1

\* link returned a patient that received two different values of one kind
\* on one page and lists one identifier of that kind, with both sources
C14_Witness ==
  /\ pc = "linked"
  /\ \E p \in 1..Len(pages) :
       \E i \in 1..Len(pages[p].identifiers) :
         \E j \in 1..Len(pages[p].identifiers) :
           /\ i < j
           /\ pages[p].identifiers[i].kind = pages[p].identifiers[j].kind
           /\ pages[p].identifiers[i].value # pages[p].identifiers[j].value
           /\ resolved[p][i].cluster = resolved[p][j].cluster
           /\ LET q == resolved[p][i].cluster
                  at == OfKind(patients[q], pages[p].identifiers[i].kind)
              IN  /\ Cardinality(at) = 1
                  /\ \A a \in at : Len(patients[q].identifiers[a].sources) >= 2

\* int() of a string of decimal digits
RECURSIVE ToInt(_, _)
ToInt(s, acc) ==
  IF s = <<>> THEN acc ELSE ToInt(Tail(s), 10 * acc + (CharCode(Head(s)) - CharCode("0")))

\* The fields of a dob value between its separators '-', '.', '/'
RECURSIVE FieldsOf(_, _)
FieldsOf(s, cur) ==
  IF s = <<>> THEN <<cur>>
  ELSE IF Head(s) \in DobSeparators
       THEN <<cur>> \o FieldsOf(Tail(s), <<>>)
       ELSE FieldsOf(Tail(s), Append(cur, Head(s)))

IsDate(v) == Len(FieldsOf(v, <<>>)) = 3

\* The month, day and year a date denotes, a two-digit year below 50 in
\* 20xx and the other two-digit years in 19xx
DateOf(v) ==
  LET f == FieldsOf(v, <<>>)
      y == ToInt(f[3], 0)
  IN  << ToInt(f[1], 0), ToInt(f[2], 0),
         IF Len(f[3]) = 2 THEN (IF y < 50 THEN 2000 + y ELSE 1900 + y) ELSE y >>

\* C15: score_dob returns 1.0 when the two values denote the same month,
\* day and year and 0.0 otherwise, and never another value.  Values that do
\* not split into three fields are compared as written, separators unified.
C15_DobScoreIsDateEquality ==
  dob_pc = "returned" =>
    /\ dob_score \in {0, Unit}
    /\ (IsDate(dob_a) /\ IsDate(dob_b)) =>
         (dob_score = Unit <=> DateOf(dob_a) = DateOf(dob_b))
    /\ (IsDate(dob_a) # IsDate(dob_b)) => dob_score = 0
    /\ (~IsDate(dob_a) /\ ~IsDate(dob_b)) =>
         (dob_score = Unit <=> FieldsOf(dob_a, <<>>) = FieldsOf(dob_b, <<>>))

\* Two dates written with different separators, padding and year length
\* scored 1.0
C15_Witness ==
  /\ dob_pc = "returned"
  /\ dob_a = <<"1", "-", "2", "-", "9", "0">>
  /\ dob_b = <<"0", "1", "/", "0", "2", "/", "1", "9", "9", "0">>
  /\ dob_score = Unit

\* Every candidate extract_page computed for a match, low confidence or not
AllMatched == matched[1] \o matched[2] \o matched[3] \o matched[4]

\* The identifier is the candidate as _build_identifier returns it
BuiltFrom(identifier, candidate) ==
  /\ identifier.kind = candidate.kind
  /\ identifier.value = candidate.value
  /\ identifier.word_indices = candidate.word_indices
  /\ identifier.confidence = Round3(candidate.confidence)

\* extract_page returned an identifier of the kind with the value
Extracts(kind, value) ==
  \E e \in 1..Len(entities.identifiers) :
    entities.identifiers[e].kind = kind /\ entities.identifiers[e].value = value

\* The mean confidence of the words of the page, which has some
MeanWordConfidence ==
  SumConfidence([ w \in 1..Len(ocr.words) |-> w - 1 ], ocr.words) \div Len(ocr.words)

\* The page whose whole text is "MRN: 123456"
MrnLine == <<"M", "R", "N", ":", " ", "1", "2", "3", "4", "5", "6">>
Value123456 == <<"1", "2", "3", "4", "5", "6">>

\* What extract_page returns is what remains of the candidates at or
\* above entity_min_confidence: every identifier is built from such a
\* candidate, and every such candidate has its kind and value returned
DiscardsBelowMinimum ==
  /\ \A e \in 1..Len(entities.identifiers) :
       \E c \in 1..Len(AllMatched) :
         /\ AllMatched[c].confidence >= entity_min_confidence
         /\ BuiltFrom(entities.identifiers[e], AllMatched[c])
  /\ \A c \in 1..Len(AllMatched) :
       AllMatched[c].confidence >= entity_min_confidence
         => Extracts(AllMatched[c].kind, AllMatched[c].value)

\* C16 as stated: extract_page discards exactly the candidates below
\* entity_min_confidence, and for the text "MRN: 123456" the mrn 123456 is
\* returned at minimum 0.5 and discarded at minimum 0.9.
C16_MrnLineDiscardedAtHighMinimum ==
  extract_pc = "extracted" =>
    /\ DiscardsBelowMinimum
    /\ ocr.text = MrnLine =>
         /\ entity_min_confidence = 500000 => Extracts("mrn", Value123456)
         /\ entity_min_confidence = 900000 => ~Extracts("mrn", Value123456)

\* C16 amended: extract_page discards exactly the candidates below
\* entity_min_confidence; for the text "MRN: 123456" the mrn 123456 is
\* returned at minimum 0.5, and at minimum 0.9 it is discarded exactly when
\* the page has no words or their mean confidence is below 0.5 (its
\* confidence being 0.8 plus 0.2 times that mean).
C16_MrnLineDiscardedWithWeakWords ==
  extract_pc = "extracted" =>
    /\ DiscardsBelowMinimum
    /\ ocr.text = MrnLine =>
         /\ entity_min_confidence = 500000 => Extracts("mrn", Value123456)
         /\ entity_min_confidence = 900000 =>
              (~Extracts("mrn", Value123456) <=>
                 (\/ ocr.words = <<>>
                  \/ MeanWordConfidence < 500000))

\* At minimum 0.9 the page "MRN: 123456" without words had its mrn
\* candidate of confidence 0.8 discarded
C16_Witness ==
  /\ extract_pc = "extracted"
  /\ entity_min_confidence = 900000
  /\ ocr.text = MrnLine
  /\ ocr.words = <<>>
  /\ Len(matched[2]) = 1
  /\ matched[2][1].confidence = 800000
  /\ entities.identifiers = <<>>

\* The matches of the page that have the identifier's kind and value
MatchesOf(identifier) ==
  { c \in 1..Len(AllMatched) :
      AllMatched[c].kind = identifier.kind /\ AllMatched[c].value = identifier.value }

\* The first of the matches with the highest confidence among them
FirstBest(cs) ==
  CHOOSE c \in cs :
    /\ \A d \in cs : AllMatched[d].confidence <= AllMatched[c].confidence
    /\ \A d \in cs : AllMatched[d].confidence = AllMatched[c].confidence => c <= d

\* C17: the list extract_page returns holds at most one identifier per kind
\* and normalized value, and it is the match of that pair with the highest
\* confidence on the page, the first one on a tie.
C17_OnePerValueHighestKept ==
  extract_pc = "extracted" =>
    \A e \in 1..Len(entities.identifiers) :
      /\ \A f \in 1..Len(entities.identifiers) :
           (/\ entities.identifiers[f].kind = entities.identifiers[e].kind
            /\ entities.identifiers[f].value = entities.identifiers[e].value) => f = e
      /\ MatchesOf(entities.identifiers[e]) # {}
      /\ BuiltFrom(entities.identifiers[e],
                   AllMatched[FirstBest(MatchesOf(entities.identifiers[e]))])

\* Two matches of one mrn value on the page, the second with the higher
\* confidence, and the one identifier returned is built from the second
C17_Witness ==
  /\ extract_pc = "extracted"
  /\ Len(matched[2]) = 2
  /\ matched[2][1].value = matched[2][2].value
  /\ matched[2][1].confidence < matched[2][2].confidence
  /\ Len(entities.identifiers) = 1
  /\ BuiltFrom(entities.identifiers[1], matched[2][2])

\* C18: whatever the input, malformed values included (such as a dob whose
\* two-character year is not numeric), link and assign_pages return a
\* result and never raise.
C18_NeverRaises == pc # "raised"

\* The step resolves one more identifier of the current page
ResolvesOne ==
  /\ pc = "link"
  /\ pages # <<>>
  /\ Len(pages') = Len(pages)
  /\ Len(resolved'[Len(pages)]) = Len(resolved[Len(pages)]) + 1

\* The number of sources the cluster holds for the kind
SourcesOf(cluster, kind) ==
  IF kind \in DOMAIN cluster.identifiers THEN Len(cluster.identifiers[kind].sources) ELSE 0

\* The step adds the identifier to cluster c and creates no cluster
MergesInto(c, identifier) ==
  /\ Len(clusters') = Len(clusters)
  /\ SourcesOf(clusters'[c], identifier.kind) = SourcesOf(clusters[c], identifier.kind) + 1
  /\ \A d \in 1..Len(clusters) : d # c => clusters'[d] = clusters[d]

\* C19: in every step that resolves an identifier, if its best similarity
\* over the clusters is above 0 and at or above the threshold of its kind,
\* the identifier is merged into that best cluster, whatever anchor of the
\* page is preferred; it is force-attached only when no cluster reaches
\* the threshold.
C19_ThresholdMergeBeforeAttach ==
  [][ ResolvesOne =>
        LET p          == Len(pages)
            i          == Len(resolved'[p])
            identifier == pages'[p].identifiers[i]
            best       == BestCluster(clusters, identifier)
            reached    == /\ best.score > 0
                          /\ best.score >= threshold_for(settings, identifier.kind)
        IN  /\ reached => /\ resolved'[p][i].how = "merge"
                          /\ resolved'[p][i].cluster = best.cluster
                          /\ MergesInto(best.cluster, identifier)
            /\ resolved'[p][i].how = "attach" => ~reached ]_vars

\* An identifier was merged into its best cluster while the nearest anchor
\* of its page was bound to another cluster
C19_Witness ==
  \E p \in 1..Len(resolved) : \E i \in 1..Len(resolved[p]) :
    /\ resolved[p][i].how = "merge"
    /\ resolved[p][i].preferred # None
    /\ resolved[p][i].preferred # resolved[p][i].cluster

\* The anchor recorded on the page at the largest position below idx
NearestPreceding(idx) ==
  CHOOSE a \in Range(anchor_positions) :
    /\ a.idx < idx
    /\ \A b \in Range(anchor_positions) : b.idx < idx => b.idx <= a.idx

\* C20: in every step that resolves a supportive identifier which reaches
\* the threshold of its kind against no cluster, while the page has an
\* anchor recorded, the identifier is merged into the cluster of the
\* nearest preceding anchor and no cluster is created; its value becomes
\* the cluster's value of the kind if the cluster had none.
C20_ForceAttachToNearestAnchor ==
  [][ ResolvesOne =>
        LET p          == Len(pages)
            i          == Len(resolved'[p])
            identifier == pages'[p].identifiers[i]
            best       == BestCluster(clusters, identifier)
            reached    == /\ best.score > 0
                          /\ best.score >= threshold_for(settings, identifier.kind)
        IN  ( /\ identifier.kind \in supportive_kinds
              /\ anchor_positions # <<>>
              /\ ~reached )
            => LET c == NearestPreceding(i - 1).cluster
               IN  /\ \E a \in Range(anchor_positions) : a.idx < i - 1
                   /\ resolved'[p][i].how = "attach"
                   /\ resolved'[p][i].cluster = c
                   /\ MergesInto(c, identifier)
                   /\ identifier.kind \notin DOMAIN clusters[c].identifiers
                        => clusters'[c].identifiers[identifier.kind].value
                             = identifier.value ]_vars

\* A supportive identifier that follows two anchors of different clusters
\* on its page was attached to the cluster of the later one, which had no
\* value of its kind
C20_Witness ==
  \E p \in 1..Len(resolved) : \E i \in 1..Len(resolved[p]) :
    \E j \in 1..Len(resolved[p]) : \E k \in 1..Len(resolved[p]) :
      /\ j < k /\ k < i
      /\ pages[p].identifiers[j].kind = "mrn"
      /\ pages[p].identifiers[k].kind = "mrn"
      /\ \A m \in (k + 1)..(i - 1) : pages[p].identifiers[m].kind # "mrn"
      /\ resolved[p][j].cluster # resolved[p][k].cluster
      /\ resolved[p][i].how = "attach"
      /\ resolved[p][i].cluster = resolved[p][k].cluster
      /\ Len(clusters[resolved[p][i].cluster].identifiers[pages[p].identifiers[i].kind].sources) = 1

\* The positions (counted from 0) of the current page whose identifier the
\* claim expects among the anchors: every mrn, and every supportive
\* identifier that created a cluster
ExpectedAnchors ==
  LET p == Len(pages)
  IN  { i - 1 : i \in { j \in 1..Len(resolved[p]) :
                          \/ pages[p].identifiers[j].kind \in anchor_kinds
                          \/ /\ pages[p].identifiers[j].kind \in supportive_kinds
                             /\ resolved[p][j].how = "create" } }

\* C21: while link reads a page, the anchors recorded for the page are, in
\* order, the page's mrn identifiers and the supportive identifiers that
\* created a new cluster, each bound to the cluster it resolved into; a
\* supportive identifier merged into an existing cluster by threshold or
\* by force-attachment is not among them; a page starts without anchors.
C21_AnchorsAreMrnsAndCreators ==
  (pc = "link" /\ pages # <<>>) =>
    LET p == Len(pages)
    IN  /\ resolved[p] = <<>> => anchor_positions = <<>>
        /\ { a.idx : a \in Range(anchor_positions) } = ExpectedAnchors
        /\ \A k \in 1..Len(anchor_positions) :
             /\ anchor_positions[k].idx < Len(resolved[p])
             /\ anchor_positions[k].cluster
                  = resolved[p][anchor_positions[k].idx + 1].cluster
             /\ \A j \in 1..(k - 1) :
                  anchor_positions[j].idx < anchor_positions[k].idx

\* The match scores with which the identifiers that brought the value of
\* the kind into cluster c were resolved
ScoresOfValue(c, kind, value) ==
  UNION { { resolved[p][i].score :
              i \in { j \in 1..Len(resolved[p]) :
                        /\ resolved[p][j].cluster = c
                        /\ resolved[p][j].how # "strict"
                        /\ pages[p].identifiers[j].kind = kind
                        /\ pages[p].identifiers[j].value = value } } :
          p \in 1..Len(resolved) }

\* C22: in every step that merges an identifier (by threshold or by
\* force-attachment) into a cluster that already holds a value of its kind,
\* the stored value is kept or becomes the new value, and it becomes the new
\* value only if the new value's match score is higher than a match score
\* the stored value had; the stored confidence becomes the maximum of the
\* old and the new confidence; the new source is appended to the sources.
C22_MergeKeepsHigherScore ==
  [][ ResolvesOne =>
        LET p          == Len(pages)
            i          == Len(resolved'[p])
            identifier == pages'[p].identifiers[i]
            r          == resolved'[p][i]
        IN  ( /\ r.how \in {"merge", "attach"}
              /\ identifier.kind \in DOMAIN clusters[r.cluster].identifiers )
            => LET old == clusters[r.cluster].identifiers[identifier.kind]
                   new == clusters'[r.cluster].identifiers[identifier.kind]
               IN  /\ new.value \in {old.value, identifier.value}
                   /\ new.value # old.value
                        => \E s \in ScoresOfValue(r.cluster, identifier.kind, old.value) :
                             r.score > s
                   /\ new.confidence = Max(old.confidence, identifier.confidence)
                   /\ new.sources
                        = Append(old.sources,
                                 <<pages[p].page_index, identifier.word_indices>>) ]_vars

\* The highest similarity of the identifier to the patient's identifiers of
\* its kind, 0 without any
BestSimilarity(identifier, patient) ==
  SetMax({0} \cup { Similarity(identifier.kind, identifier.value, c.value) :
                      c \in { d \in Range(patient.identifiers) :
                                d.kind = identifier.kind } })

\* s * w(kind) / W, the weight as configured when W = 0
Share(kind, s) ==
  LET W == WeightTotal(settings)
  IN  (s * ConfiguredWeight(settings, kind)) \div (IF W = 0 THEN 1000 ELSE W)

\* The best similarity to the patient of every identifier of the page
Similarities(page, patient) ==
  [ k \in 1..Len(page.identifiers) |->
      BestSimilarity(page.identifiers[k], patient) ] @@ <<>>

\* The positions, in page order, of the identifiers that contribute: those
\* whose best similarity is above 0
Contributing(sims) ==
  SelectSeq([ k \in 1..Len(sims) |-> k ], LAMBDA k : sims[k] > 0)

RECURSIVE SumOfShares(_, _, _)
SumOfShares(page, sims, at) ==
  IF at = <<>> THEN 0
  ELSE Share(page.identifiers[Head(at)].kind, sims[Head(at)])
         + SumOfShares(page, sims, Tail(at))

\* min(1, sum of the shares), to the three decimals the assigner reports
ClampedSum(page, sims, at) == Round3(Min(Unit, SumOfShares(page, sims, at)))

\* C23: once assign_pages has returned, the score of every page against
\* every patient is min(1, sum of s * w(kind) / W) over the identifiers of
\* the page whose best similarity s to the patient is above 0 (W the sum of
\* the four weights, the weights as configured when W = 0), reported to
\* three decimals; its reasons are, in page order, one per contributing
\* identifier with its kind, a patient value of that similarity and its
\* share, none for an identifier of similarity 0; the confidence of the
\* page's assignment is the highest such score above 0, and 0 without one.
C23_ScoreIsClampedWeightedSum ==
  pc = "assigned" =>
    \A p \in 1..Len(pages) :
      /\ \A q \in 1..Len(patients) :
           LET sp   == page_scores[p][q]
               sims == Similarities(pages[p], patients[q])
               at   == Contributing(sims)
           IN  /\ sp.score = ClampedSum(pages[p], sims, at)
               /\ Len(sp.reasons) = Len(at)
               /\ \A k \in 1..Len(at) :
                    LET id == pages[p].identifiers[at[k]]
                        s  == sims[at[k]]
                    IN  /\ sp.reasons[k].kind = id.kind
                        /\ sp.reasons[k].score = Round3(Share(id.kind, s))
                        /\ \E c \in Range(patients[q].identifiers) :
                             /\ c.kind = id.kind
                             /\ c.value = sp.reasons[k].value
                             /\ Similarity(c.kind, id.value, c.value) = s
      /\ summary.assignments[p].confidence
           = SetMax({0} \cup { page_scores[p][q].score : q \in 1..Len(patients) })

\* The weights sum to 2.0 and a page carries an identifier whose similarity
\* to a patient lies strictly between 0 and 1, so that its share is the
\* similarity times the weight divided by the sum
C23_Witness ==
  /\ pc = "assigned"
  /\ WeightTotal(settings) = 2000
  /\ \E p \in 1..Len(pages) : \E q \in 1..Len(patients) :
       \E i \in 1..Len(pages[p].identifiers) :
         LET s == BestSimilarity(pages[p].identifiers[i], patients[q])
         IN  /\ 0 < s /\ s < Unit
             /\ Share(pages[p].identifiers[i].kind, s) > 0
             /\ Share(pages[p].identifiers[i].kind, s) * 1000
                  # s * ConfiguredWeight(settings, pages[p].identifiers[i].kind)

\* The confidences of the identifiers that created cluster c or were merged
\* or force-attached into it
ConfidencesInto(c) ==
  UNION { { pages[p].identifiers[i].confidence :
              i \in { j \in 1..Len(resolved[p]) :
                        /\ resolved[p][j].cluster = c
                        /\ resolved[p][j].how \in {"create", "merge", "attach"} } } :
          p \in 1..Len(resolved) }

\* C24: while link runs and after it, the aggregate score of every cluster
\* is the highest confidence among the identifiers that created it or were
\* merged or force-attached into it, and so is at least the confidence of
\* every LinkedIdentifier the cluster holds; the LinkedPatient link returns
\* carries that score to three decimals.
C24_ScoreIsMaxConfidence ==
  /\ \A c \in 1..Len(clusters) :
       /\ clusters[c].score = SetMax(ConfidencesInto(c))
       /\ \A k \in DOMAIN clusters[c].identifiers :
            clusters[c].identifiers[k].confidence <= clusters[c].score
  /\ pc = "linked" =>
       \A c \in 1..Len(patients) :
         /\ patients[c].score = Round3(SetMax(ConfidencesInto(c)))
         /\ \A k \in 1..Len(patients[c].identifiers) :
              patients[c].identifiers[k].confidence <= patients[c].score

\* link returned a cluster created by an identifier of lower confidence
\* than one merged or force-attached into it, whose confidence is the score
C24_Witness ==
  /\ pc = "linked"
  /\ \E p \in 1..Len(resolved) : \E i \in 1..Len(resolved[p]) :
       \E q \in 1..Len(resolved) : \E j \in 1..Len(resolved[q]) :
         /\ resolved[p][i].how = "create"
         /\ resolved[q][j].how \in {"merge", "attach"}
         /\ resolved[q][j].cluster = resolved[p][i].cluster
         /\ pages[p].identifiers[i].confidence < pages[q].identifiers[j].confidence
         /\ patients[resolved[p][i].cluster].score = pages[q].identifiers[j].confidence

\* The list link returns for the pages read so far on a new linker whose
\* linker_strict_mode is the opposite of the run's
LinkedWithOtherMode ==
  LET other == [settings EXCEPT !.linker_strict_mode = ~settings.linker_strict_mode]
      cs    == link(other, pages, 1).clusters
  IN  [ i \in 1..Len(cs) |-> to_linked_patient(cs[i]) ]

\* C25: no identifier is resolved by the strict-mode branch of
\* _assign_identifier, and the list link returns is the list it returns for
\* the same pages and thresholds with linker_strict_mode set the other way.
C25_StrictModeChangesNothing ==
  /\ \A p \in 1..Len(resolved) : \A i \in 1..Len(resolved[p]) :
       resolved[p][i].how # "strict"
  /\ pc = "linked" => patients = LinkedWithOtherMode

\* link returned in strict mode after a name reached the name threshold
\* against a cluster while an anchor of its page was preferred
C25_Witness ==
  /\ pc = "linked"
  /\ settings.linker_strict_mode
  /\ \E p \in 1..Len(resolved) : \E i \in 1..Len(resolved[p]) :
       /\ pages[p].identifiers[i].kind = "name"
       /\ resolved[p][i].score >= settings.name_match_threshold
       /\ resolved[p][i].preferred # None
       /\ resolved[p][i].how = "merge"

\* The positions of the dob identifiers extract_page returned
DobsExtracted ==
  { e \in 1..Len(entities.identifiers) : entities.identifiers[e].kind = "dob" }

\* C26: every dob value extract_page returns has its separators unified to
\* "/", so that the raw values "01-02-1990" and "01/02/1990" of one page
\* come back as one dob identifier: no returned dob holds a "-", and no two
\* returned dobs differ only in their separators.
C26_DobSeparatorsUnified ==
  extract_pc = "extracted" =>
    /\ \A e \in DobsExtracted : "-" \notin Range(entities.identifiers[e].value)
    /\ \A e \in DobsExtracted : \A f \in DobsExtracted :
         ReplaceChar(entities.identifiers[e].value, "-", "/")
           = ReplaceChar(entities.identifiers[f].value, "-", "/")
         => e = f

\* The place of the kind in the order of the patterns
RankOf(kind) == CHOOSE k \in 1..Len(PatternOrder) : PatternOrder[k] = kind

\* C27: the identifiers extract_page returns stand grouped by kind in the
\* order name, mrn, dob, phone, whatever their places in the text; and
\* while link reads the extracted page, as long as a name is still to be
\* resolved nothing but names has been resolved and no anchor of the page
\* is bound to an mrn.
C27_NamesBeforeMrns ==
  /\ extract_pc = "extracted" =>
       \A e \in 1..Len(entities.identifiers) : \A f \in 1..Len(entities.identifiers) :
         e < f => RankOf(entities.identifiers[e].kind)
                    <= RankOf(entities.identifiers[f].kind)
  /\ pc \in {"link", "linked"} =>
       /\ pages[1].identifiers
            = SubSeq(entities.identifiers, 1, Len(pages[1].identifiers))
       /\ \A f \in (Len(pages[1].identifiers) + 1)..Len(entities.identifiers) :
            entities.identifiers[f].kind = "name"
            => /\ \A e \in 1..Len(pages[1].identifiers) :
                    pages[1].identifiers[e].kind = "name"
               /\ \A a \in Range(anchor_positions) :
                    pages[1].identifiers[a.idx + 1].kind # "mrn"
       /\ \A e \in 1..Len(resolved[1]) :
            pages[1].identifiers[e].kind = "name"
            => \A f \in 1..e : pages[1].identifiers[f].kind = "name"

\* The mrn stands before the name in the text of the page, the name was
\* extracted and resolved first without any anchor, and the mrn after it
C27_Witness ==
  /\ pc = "linked"
  /\ Len(entities.identifiers) = 2
  /\ entities.identifiers[1].kind = "name"
  /\ entities.identifiers[2].kind = "mrn"
  /\ entities.identifiers[1].word_indices # <<>>
  /\ entities.identifiers[2].word_indices # <<>>
  /\ \A i \in Range(entities.identifiers[2].word_indices) :
       \A j \in Range(entities.identifiers[1].word_indices) : i < j
  /\ resolved[1][1].preferred = None
  /\ resolved[1][1].how = "create"
  /\ Len(resolved[1]) = 2

\* The identifier occurrences (page, position) of the kind that resolved
\* into cluster c
OccurrencesInto(c, kind) ==
  UNION { { <<p, i>> : i \in { j \in 1..Len(resolved[p]) :
                                 /\ resolved[p][j].cluster = c
                                 /\ pages[p].identifiers[j].kind = kind } } :
          p \in 1..Len(resolved) }

RECURSIVE SumOfSources(_, _)
SumOfSources(cluster, kinds) ==
  IF kinds = {} THEN 0
  ELSE LET k == CHOOSE x \in kinds : TRUE
       IN  SourcesOf(cluster, k) + SumOfSources(cluster, kinds \ {k})

RECURSIVE TotalSources(_)
TotalSources(cs) ==
  IF cs = <<>> THEN 0 ELSE SumOfSources(Head(cs), Kinds) + TotalSources(Tail(cs))

\* The page indices that occur in the sources of the cluster's identifiers
SourcePages(cluster) ==
  UNION { { src[1] : src \in Range(cluster.identifiers[k].sources) } :
          k \in DOMAIN cluster.identifiers }

NoDuplicates(xs) == \A i \in 1..Len(xs) : \A j \in 1..Len(xs) : xs[i] = xs[j] => i = j

\* C28: while link runs and after it, every identifier read so far has
\* contributed exactly one source to exactly one cluster: the sources of
\* all clusters and kinds number as many as the identifiers read, the
\* sources a cluster holds for a kind are those of the identifiers of the
\* kind that resolved into it, one cluster exists per identifier that
\* created one, and the pages of every cluster are free of duplicates and
\* are the page indices of its sources; the patients returned carry the
\* same sources and pages.
C28_ProvenanceComplete ==
  pc \in {"link", "linked"} =>
    /\ TotalSources(clusters) = SumLen(pages)
    /\ Len(clusters)
         = Cardinality(UNION { { <<p, i>> : i \in { j \in 1..Len(resolved[p]) :
                                                      resolved[p][j].how = "create" } } :
                               p \in 1..Len(resolved) })
    /\ \A c \in 1..Len(clusters) :
         /\ \A k \in Kinds :
              /\ SourcesOf(clusters[c], k) = Cardinality(OccurrencesInto(c, k))
              /\ \A o \in OccurrencesInto(c, k) :
                   << pages[o[1]].page_index, pages[o[1]].identifiers[o[2]].word_indices >>
                     \in Range(clusters[c].identifiers[k].sources)
         /\ NoDuplicates(clusters[c].pages)
         /\ Range(clusters[c].pages) = SourcePages(clusters[c])
    /\ pc = "linked" =>
         /\ Len(patients) = Len(clusters)
         /\ \A c \in 1..Len(patients) :
              /\ NoDuplicates(patients[c].pages)
              /\ Range(patients[c].pages) = SourcePages(clusters[c])
              /\ \A k \in 1..Len(patients[c].identifiers) :
                   patients[c].identifiers[k].sources
                     = clusters[c].identifiers[patients[c].identifiers[k].kind].sources

\* link returned a cluster that holds three sources or more from two pages
C28_Witness ==
  /\ pc = "linked"
  /\ \E c \in 1..Len(patients) :
       /\ Len(patients[c].pages) = 2
       /\ SumOfSources(clusters[c], Kinds) >= 3
       /\ Len(patients[c].identifiers) >= 2

\* The page indices of the assignments that satisfy the test, in order
PagesWhere(assignments, Test(_)) ==
  LET chosen == SelectSeq(assignments, Test)
  IN  [ k \in 1..Len(chosen) |-> chosen[k].page_index ]

\* C29: in the summary assign_pages returns, unassigned_pages lists exactly
\* the pages whose assignment has no patient id, and ambiguous_pages
\* exactly the pages whose assignment has a patient id and is flagged for
\* manual review, both in page order; no page is in both lists, every
\* flagged page is in exactly one of them, and an assignment without a
\* patient id is flagged and has no reasons.
C29_ListsMatchAssignments ==
  pc = "assigned" =>
    /\ summary.unassigned_pages
         = PagesWhere(summary.assignments, LAMBDA a : a.patient_id = NoPatient)
    /\ summary.ambiguous_pages
         = PagesWhere(summary.assignments,
                      LAMBDA a : a.patient_id # NoPatient /\ a.manual_review)
    /\ Range(summary.unassigned_pages) \cap Range(summary.ambiguous_pages) = {}
    /\ NoDuplicates(summary.unassigned_pages \o summary.ambiguous_pages)
    /\ \A k \in 1..Len(summary.assignments) :
         LET a == summary.assignments[k]
         IN  /\ a.manual_review
                  => a.page_index \in Range(summary.unassigned_pages)
                                       \cup Range(summary.ambiguous_pages)
             /\ a.patient_id = NoPatient => a.manual_review /\ a.reasons = <<>>

\* A summary with an ambiguous page and an unassigned page whose top score
\* was below the minimum confidence
C29_Witness ==
  /\ pc = "assigned"
  /\ summary.unassigned_pages # <<>>
  /\ summary.ambiguous_pages # <<>>
  /\ \E k \in 1..Len(summary.assignments) :
       /\ summary.assignments[k].patient_id = NoPatient
       /\ summary.assignments[k].confidence > 0

\* C30: while link reads a page, every anchor recorded for the page stands
\* at a position strictly below the position of the identifier link reads
\* next, so that when _nearest_anchor is called all anchors precede the
\* identifier and the fallback to the earliest following anchor is never
\* taken.
C30_AnchorsPrecede ==
  (pc = "link" /\ pages # <<>>) =>
    LET idx == Len(pages[Len(pages)].identifiers)
    IN  /\ \A a \in Range(anchor_positions) : a.idx < idx
        /\ anchor_positions # <<>>
             => /\ Preceding(idx, anchor_positions) = anchor_positions
                /\ nearest_anchor(idx, anchor_positions)
                     = FirstWith(anchor_positions,
                                 SetMax(IdxOf(anchor_positions))).cluster

\* _nearest_anchor was called for the third identifier of a page or a later
\* one while the page had two anchors
C30_Witness ==
  /\ pc = "link"
  /\ pages # <<>>
  /\ Len(anchor_positions) >= 2
  /\ \E i \in 3..Len(resolved[Len(pages)]) :
       /\ pages[Len(pages)].identifiers[i].kind \in supportive_kinds
       /\ resolved[Len(pages)][i].preferred # None
       /\ \E a \in Range(anchor_positions) : \E b \in Range(anchor_positions) :
            a.idx < b.idx /\ b.idx < i - 1

\* The clusters of the identifiers that created one, in the order link
\* read the identifiers
RECURSIVE CreatedIn(_)
CreatedIn(rs) ==
  IF rs = <<>> THEN <<>>
  ELSE (IF Head(rs).how = "create" THEN <<Head(rs).cluster>> ELSE <<>>)
         \o CreatedIn(Tail(rs))

RECURSIVE Created(_)
Created(rss) == IF rss = <<>> THEN <<>> ELSE CreatedIn(Head(rss)) \o Created(Tail(rss))

\* patient_00k written out, for k below 10
Patient00(k) == <<"patient_", "0", "0", Alphabet[CharCode("0") + k]>>

\* C10: within one call of link on a new linker the k-th cluster created
\* has the id patient_00k, the ids are pairwise distinct, and the returned
\* list is in creation order.
C10_SequentialIds ==
  /\ Created(resolved) = [ k \in 1..Len(clusters) |-> k ]
  /\ \A k \in 1..Len(clusters) : clusters[k].patient_id = Patient00(k)
  /\ Returned =>
       /\ Len(patients) = Len(clusters)
       /\ \A k \in 1..Len(patients) : patients[k].patient_id = Patient00(k)
       /\ \A k \in 1..Len(patients) : \A l \in 1..Len(patients) :
            k # l => patients[k].patient_id # patients[l].patient_id

\* link returned three clusters, one of them joined by a later identifier
C10_Witness ==
  /\ Returned
  /\ Len(patients) = 3
  /\ \E p \in 1..Len(resolved) : \E i \in 1..Len(resolved[p]) :
       resolved[p][i].how # "create"

====
